---------------------------- MODULE Spec2Model ----------------------------
(***************************************************************************)
(* A model of the compute core of the path tracer:                         *)
(*   - the top-down BVH build of crates/runner/src/bvh.rs (compute_bounds, *)
(*     subdivide, rights_to_skips, BVH::new), run as a call-stack machine; *)
(*   - the skip-link walk over a finished tree;                            *)
(*   - the multi-mesh packer BLAS::new / BLASData::new;                    *)
(*   - the atomic work queue (Queue::new and its appending lanes);         *)
(*   - the per-frame submission of State::render;                          *)
(*   - the dispatches of a frame over the work queues and the path buffer. *)
(*   - the instance-level tree of crates/runner/src/tlas.rs (TLAS::new and  *)
(*     the upload of its instance ids);                                    *)
(*   - the shuffled sample list of Samples::new;                           *)
(*   - the application loop of src/src/app.rs with the mesh server, the    *)
(*     material server and the scene binder it schedules.                  *)
(*                                                                         *)
(* Coordinates are small integers.  The code compares                      *)
(*   face_centroid(i)[axis] = (p0+p1+p2)/3   with                          *)
(*   split = lb[axis] + extent[axis]/2.                                    *)
(* Both sides are kept here multiplied by 6, which keeps them integral and *)
(* keeps the order: for integer coordinates below 2^20 the two f32 values  *)
(* are either equal or at least 1/6 apart, so rounding never changes the   *)
(* outcome of the comparison.                                              *)
(***************************************************************************)
EXTENDS Integers, Sequences, FiniteSets, TLC

VARIABLES
    meshes,         \* the meshes still to be built, in input order
    threshold,      \* the leaf threshold handed to subdivide
    mesh,           \* the mesh BVH::new is building from
    nodes,          \* BVH.nodes, the arena (index k of the code is nodes[k+1])
    tri_positions,  \* BVH.tri_positions
    tri_faces,      \* BVH.tri_faces, the element sequence the build reorders
    tri_normals,    \* BVH.tri_normals
    stack,          \* the call stack of subdivide / rights_to_skips
    phase,          \* where BVH::new stands
    guarded,        \* the nodes whose split the one-sided guard aborted
    cur,            \* skip-link walk: the node being visited
    visits,         \* skip-link walk: how often each node was visited
    walk,           \* skip-link walk: "idle", "walking", "ended"
    allhit,         \* skip-link walk: every test so far was a hit
    bvhs,           \* the finished trees, in input order
    packed,         \* the merged buffers and running offsets of BLAS::new
    pack_idx,       \* how many trees BLAS::new has merged
    counter,        \* work queue: the counter pair
    queue_buffer,   \* work queue: the slots
    lane_pc,        \* work queue: each lane's position in its append
    lane_slot,      \* work queue: the slot each lane's fetch-and-add returned
    is_surface_configured, \* State.is_surface_configured
    frame,          \* the number of State::render calls so far
    gpu_timeline,   \* the command buffers submitted to the device queue
    gpu_done,       \* how many of them the GPU has executed
    queues,         \* State's work queues: size, counter pair, buffer
    paths,          \* the path buffer, one record per lane
    wave_frame,     \* the frames submitted so far
    wave_timeline,  \* the dispatches submitted to the device queue
    wave_done,      \* how many of them the GPU has executed
    resets,         \* per queue, the resets executed in the running frame
    early,          \* the queues used in the running frame before a reset
    workgroups,     \* per queue, the workgroup count of its last drain
    tlas_instances, \* TLAS::new: the instances handed to the build
    tlas_nodes,     \* TLAS.nodes
    instance_ids,   \* TLAS.instance_ids
    aabbs,          \* TLAS.aabbs
    tlas_stack,     \* the call stack of the TLAS build
    tlas_phase,     \* where TLAS::new and TLASData::new stand
    usize_bytes,    \* the size of usize on the target
    instance_id_buffer,\* the instance-id GPU buffer, as u32 words
    sample_dims,    \* Samples::new: the image size dims
    sample_tiles,   \* Samples::new: the tile list
    sample_data,    \* Samples::new: the sample list, as blocks of tile_size x tile_size pixels
    sample_phase,   \* where Samples::new stands
    startup_has_run,\* BevyApp.startup_has_run
    schedule_log,   \* the schedules each BevyApp::run call has run, one entry per call
    mesh_server,    \* the MeshServer resource
    channels,       \* per MeshId, the channel of its load job
    load_stats,     \* per descriptor, the ids allocated and the jobs started so far
    material_server,\* MaterialServer.materials
    objects,        \* the entities of the world with their components
    removed_transforms,\* unread RemovedComponents<Transform> events exist
    removed_meshids,\* unread RemovedComponents<MeshId> events exist
    binder_local,   \* binder_system's Local<BinderLocal>
    scene_bindings  \* the SceneBindings resource

bvhVars   == <<meshes, threshold, mesh, nodes, tri_positions, tri_faces, tri_normals, stack,
               phase, guarded, cur, visits, walk, allhit, bvhs, packed, pack_idx>>
queueVars == <<counter, queue_buffer, lane_pc, lane_slot>>
frameVars == <<is_surface_configured, frame, gpu_timeline, gpu_done>>
waveVars  == <<queues, paths, wave_frame, wave_timeline, wave_done, resets, early, workgroups>>
tlasVars  == <<tlas_instances, tlas_nodes, instance_ids, aabbs, tlas_stack, tlas_phase,
               usize_bytes, instance_id_buffer>>
sampleVars == <<sample_dims, sample_tiles, sample_data, sample_phase>>
appVars == <<startup_has_run, schedule_log, mesh_server, channels, load_stats, material_server, objects, removed_transforms, removed_meshids, binder_local, scene_bindings>>
vars      == <<meshes, threshold, mesh, nodes, tri_positions, tri_faces, tri_normals, stack,
               phase, guarded, cur, visits, walk, allhit, bvhs, packed, pack_idx,
               counter, queue_buffer, lane_pc, lane_slot,
               is_surface_configured, frame, gpu_timeline, gpu_done,
               queues, paths, wave_frame, wave_timeline, wave_done, resets, early,
               workgroups,
               tlas_instances, tlas_nodes, instance_ids, aabbs, tlas_stack, tlas_phase, usize_bytes, instance_id_buffer,
               sample_dims, sample_tiles, sample_data, sample_phase,
               startup_has_run, schedule_log, mesh_server, channels, load_stats, material_server, objects, removed_transforms, removed_meshids, binder_local, scene_bindings>>

---------------------------------------------------------------------------
(* Bounds of the model *)

MaxFaces == 4
MaxThreshold == 2
MaxMeshes == 2

---------------------------------------------------------------------------
(* Vectors and boxes *)

Min2(a, b) == IF a < b THEN a ELSE b
Max2(a, b) == IF a > b THEN a ELSE b

VecMin(a, b) == <<Min2(a[1], b[1]), Min2(a[2], b[2]), Min2(a[3], b[3])>>
VecMax(a, b) == <<Max2(a[1], b[1]), Max2(a[2], b[2]), Max2(a[3], b[3])>>
VecSub(a, b) == <<a[1] - b[1], a[2] - b[2], a[3] - b[3]>>

Vec3Zero == <<0, 0, 0>>

AABBDefault == [lb |-> Vec3Zero, ub |-> Vec3Zero]

union_lb_only(self, other) == [lb |-> VecMin(self.lb, other.lb), ub |-> self.ub]

union(self, other) == [lb |-> VecMin(self.lb, other.lb), ub |-> VecMax(self.ub, other.ub)]

BVHNodeDefault ==
    [bounds |-> AABBDefault, left |-> 0, right |-> 0, is_leaf |-> FALSE,
     start |-> 0, end |-> 0]

---------------------------------------------------------------------------
(* Input meshes *)

Positions12 ==
    << <<0, 0, 0>>, <<1, 0, 0>>, <<0, 1, 0>>,
       <<6, 0, 0>>, <<12, 0, 0>>, <<12, 1, 0>>,
       <<0, 0, 12>>, <<1, 0, 12>>, <<0, 1, 12>>,
       <<12, 0, 12>>, <<11, 0, 12>>, <<12, 1, 12>> >>

Positions3 == << <<0, 0, 0>>, <<1, 0, 0>>, <<0, 1, 0>> >>

\* Faces are triples of 0-based vertex indices, as in the code.
FaceA == <<0, 1, 2>>    \* small, at the origin
FaceX == <<3, 4, 5>>    \* x in 6..12, centroid right of its own midpoint
FaceE == <<0, 3, 4>>    \* x in 0..12, centroid exactly on its own midpoint
FaceC == <<6, 7, 8>>    \* small, at z = 12
FaceG == <<9, 10, 11>>  \* small, at x = 12, z = 12
FaceBad == <<0, 1, 3>>  \* index 3 is out of range for Positions3

FaceSet == {FaceA, FaceX, FaceE, FaceC, FaceG}

SeqsUpTo(S, n) == UNION {[1..k -> S] : k \in 0..n}

\* One normal per position; normal v of a mesh is told apart by its first
\* component.
NormalsFor(positions) == [v \in 1..Len(positions) |-> <<v, 0, 1>>]

MeshOf(positions, faces) ==
    [positions |-> positions, normals |-> NormalsFor(positions), faces |-> faces]

SingleMeshes == {MeshOf(Positions12, fs) : fs \in SeqsUpTo(FaceSet, MaxFaces)}

MeshSmall == MeshOf(Positions3, <<FaceA>>)
MeshTwo   == MeshOf(Positions12, <<FaceA, FaceX>>)
MeshBad   == MeshOf(Positions3, <<FaceBad>>)

\* a Mesh whose normals are fewer than its positions (the fields are public)
MeshFewNormals ==
    [positions |-> Positions3, normals |-> <<<<1, 0, 1>>>>, faces |-> <<FaceA>>]

\* a Mesh with more normals than positions, which Mesh::new and
\* Mesh::from_model keep as they are
MeshMoreNormals ==
    [positions |-> Positions3,
     normals |-> <<<<1, 0, 1>>, <<2, 0, 1>>, <<3, 0, 1>>, <<4, 0, 1>>>>,
     faces |-> <<FaceA>>]

PackPool == {MeshSmall, MeshTwo, MeshBad, MeshFewNormals, MeshMoreNormals}

MeshLists ==
    {<<m>> : m \in SingleMeshes}
        \cup UNION {[1..k -> PackPool] : k \in 1..MaxMeshes}


---------------------------------------------------------------------------
(* The arena and the element accessors *)

\* self.nodes[k]
NodeAt(ns, k) == ns[k + 1]

\* self.nodes[k] = n
SetNode(ns, k, n) == [ns EXCEPT ![k + 1] = n]

\* Indexing tri_faces[face] and tri_positions[i] panics out of range.
FaceInRange(positions, faces, face) ==
    /\ face < Len(faces)
    /\ \A c \in 1..3 : faces[face + 1][c] < Len(positions)

FacePositions(positions, faces, face) ==
    [c \in 1..3 |-> positions[faces[face + 1][c] + 1]]

face_bounds(positions, faces, face) ==
    LET p == FacePositions(positions, faces, face)
    IN  [lb |-> VecMin(VecMin(p[1], p[2]), p[3]),
         ub |-> VecMax(VecMax(p[1], p[2]), p[3])]

\* 6 * face_centroid(face): the sum of the three positions is divided by 3
\* in the code; the model keeps 2 * sum.
face_centroid(positions, faces, face) ==
    LET p == FacePositions(positions, faces, face)
    IN  [a \in 1..3 |-> 2 * (p[1][a] + p[2][a] + p[3][a])]

elem_swap_overwrite(faces, a, b) == [faces EXCEPT ![a + 1] = faces[b + 1]]

\* self.tri_faces.swap(a, b)
elem_swap(faces, a, b) ==
    [faces EXCEPT ![a + 1] = faces[b + 1], ![b + 1] = faces[a + 1]]

RECURSIVE FoldBounds(_, _, _, _, _)
FoldBounds(positions, faces, acc, i, end) ==
    IF i >= end THEN acc
    ELSE FoldBounds(positions, faces, union(acc, face_bounds(positions, faces, i)),
                    i + 1, end)

LeafBoundsShort(positions, faces, start, end) ==
    FoldBounds(positions, faces, face_bounds(positions, faces, start), start + 1, end - 1)

\* the leaf branch of compute_bounds
LeafBounds(positions, faces, start, end) ==
    FoldBounds(positions, faces, face_bounds(positions, faces, start), start + 1, end)

\* compute_bounds(node_idx) panics when a face it reads is out of range; it
\* reads face node.start even when the range is empty.
ComputeBoundsPanics(ns, positions, faces, node_idx) ==
    LET node == NodeAt(ns, node_idx)
    IN  /\ node.is_leaf
        /\ \E f \in node.start .. Max2(node.start, node.end - 1) :
               ~FaceInRange(positions, faces, f)

compute_bounds(ns, positions, faces, node_idx) ==
    LET node == NodeAt(ns, node_idx)
        b == IF ~node.is_leaf
                THEN union(NodeAt(ns, node.left).bounds, NodeAt(ns, node.right).bounds)
                ELSE LeafBounds(positions, faces, node.start, node.end)
    IN  SetNode(ns, node_idx, [node EXCEPT !.bounds = b])

---------------------------------------------------------------------------
(* The pieces of subdivide *)

GoesLeftOrTie(centroid, split) == centroid <= split

\* if self.face_centroid(i)[axis] < split
GoesLeft(centroid, split) == centroid < split

WithinThresholdPlusOne(node, t) == node.end - node.start <= t + 1

\* if node.end - node.start <= threshold { return; }
WithinThreshold(node, t) == node.end - node.start <= t

\* the longest axis (0, 1 or 2), strict comparisons in axis order
LongestAxis(bounds) ==
    LET extent == VecSub(bounds.ub, bounds.lb)
        a1 == IF extent[2] > extent[1] THEN 1 ELSE 0
    IN  IF extent[3] > extent[a1 + 1] THEN 2 ELSE a1

\* 6 * split, split = lb[axis] + extent[axis] / 2
SplitOf(bounds, axis) ==
    6 * bounds.lb[axis + 1] + 3 * (bounds.ub[axis + 1] - bounds.lb[axis + 1])

LeftLeaf(node, i) ==
    [BVHNodeDefault EXCEPT !.is_leaf = TRUE, !.start = node.start, !.end = i]

RightLeafGap(node, i) ==
    [BVHNodeDefault EXCEPT !.is_leaf = TRUE, !.start = i + 1, !.end = node.end]

RightLeaf(node, i) ==
    [BVHNodeDefault EXCEPT !.is_leaf = TRUE, !.start = i, !.end = node.end]

InternalNodeSwapped(l, r) ==
    [BVHNodeDefault EXCEPT !.is_leaf = FALSE, !.left = r, !.right = l]

InternalNode(l, r) ==
    [BVHNodeDefault EXCEPT !.is_leaf = FALSE, !.left = l, !.right = r]

SkipValueNoSentinel(node_idx, p_right) == p_right

SkipValueAlwaysSentinel(node_idx, p_right) == 0

\* right: if node_idx == 0 { 0 } else { p_right }
SkipValue(node_idx, p_right) == IF node_idx = 0 THEN 0 ELSE p_right

---------------------------------------------------------------------------
(* The call stack *)

FrameDefault ==
    [fn |-> "subdivide", pc |-> "enter", node_idx |-> 0, parent_idx |-> 0,
     node |-> BVHNodeDefault, axis |-> 0, split |-> 0, i |-> 0, j |-> 0,
     l |-> 0, r |-> 0, rewrite |-> FALSE, p_right |-> 0, before |-> <<>>]

SubdivideFrame(node_idx) ==
    [FrameDefault EXCEPT !.fn = "subdivide", !.node_idx = node_idx]

SkipsFrame(parent_idx, node_idx) ==
    [FrameDefault EXCEPT !.fn = "rights_to_skips", !.parent_idx = parent_idx,
                         !.node_idx = node_idx]

Top == stack[Len(stack)]
Below == SubSeq(stack, 1, Len(stack) - 1)
SetTop(f) == Append(Below, f)
Call(f, callee) == Append(Append(Below, f), callee)

\* The top call returns.  BVH::new runs subdivide(0, threshold), then
\* rights_to_skips(0, 0), then returns the tree.
Return ==
    IF Len(stack) > 1
        THEN /\ stack' = Below
             /\ phase' = phase
        ELSE IF phase = "subdivide"
            THEN /\ stack' = <<SkipsFrame(0, 0)>>
                 /\ phase' = "skips"
            ELSE /\ stack' = <<>>
                 /\ phase' = "done"


---------------------------------------------------------------------------
(* BVH::new: the tree as constructed, before compute_bounds(0) *)

RootLeaf(m) == [BVHNodeDefault EXCEPT !.is_leaf = TRUE, !.start = 0, !.end = Len(m.faces)]

\* The fields BVH::new sets before its first call, for mesh m.
Construct(m) ==
    /\ mesh' = m
    /\ nodes' = <<RootLeaf(m)>>
    /\ tri_positions' = m.positions
    /\ tri_faces' = m.faces
    /\ tri_normals' = m.normals
    /\ stack' = <<>>
    /\ phase' = "new"
    /\ guarded' = {}
    /\ cur' = 0
    /\ visits' = <<>>
    /\ walk' = "idle"
    /\ allhit' = TRUE

QueueIdle ==
    /\ counter = <<0, 0>>
    /\ queue_buffer = <<>>
    /\ lane_pc = <<>>
    /\ lane_slot = <<>>

FrameIdle ==
    /\ is_surface_configured = FALSE
    /\ frame = 0
    /\ gpu_timeline = <<>>
    /\ gpu_done = 0

WaveIdle ==
    /\ queues = <<>>
    /\ paths = <<>>
    /\ wave_frame = 0
    /\ wave_timeline = <<>>
    /\ wave_done = 0
    /\ resets = <<>>
    /\ early = {}
    /\ workgroups = <<>>

TlasIdle ==
    /\ tlas_instances = <<>>
    /\ tlas_nodes = <<>>
    /\ instance_ids = <<>>
    /\ aabbs = <<>>
    /\ tlas_stack = <<>>
    /\ tlas_phase = "idle"
    /\ usize_bytes = 8
    /\ instance_id_buffer = <<>>

SampleIdle ==
    /\ sample_dims = <<0, 0>>
    /\ sample_tiles = <<>>
    /\ sample_data = <<>>
    /\ sample_phase = "idle"

AppIdle ==
    /\ startup_has_run = FALSE
    /\ schedule_log = <<>>
    /\ mesh_server = <<>>
    /\ channels = <<>>
    /\ load_stats = <<>>
    /\ material_server = <<>>
    /\ objects = <<>>
    /\ removed_transforms = FALSE
    /\ removed_meshids = FALSE
    /\ binder_local = <<>>
    /\ scene_bindings = <<>>

Init ==
    /\ AppIdle
    /\ SampleIdle
    /\ TlasIdle
    /\ WaveIdle
    /\ \E ms \in MeshLists :
        /\ mesh = ms[1]
        /\ meshes = Tail(ms)
        /\ nodes = <<RootLeaf(ms[1])>>
        /\ tri_positions = ms[1].positions
        /\ tri_faces = ms[1].faces
        /\ tri_normals = ms[1].normals
    \* BVH::new passes 8, the other builders of the repository 32 and 2
    /\ threshold \in 1..MaxThreshold
    /\ stack = <<>>
    /\ phase = "new"
    /\ guarded = {}
    /\ cur = 0
    /\ visits = <<>>
    /\ walk = "idle"
    /\ allhit = TRUE
    /\ bvhs = <<>>
    /\ packed = <<>>
    /\ pack_idx = 0
    /\ QueueIdle
    /\ FrameIdle

buildUnchanged == <<meshes, threshold, mesh, tri_positions, tri_normals, cur, visits,
                    walk, allhit, bvhs, packed, pack_idx, counter, queue_buffer,
                    lane_pc, lane_slot, is_surface_configured, frame, gpu_timeline,
                    gpu_done, queues, paths, wave_frame, wave_timeline, wave_done,
                    resets, early, workgroups,
                    tlas_instances, tlas_nodes, instance_ids, aabbs, tlas_stack, tlas_phase, usize_bytes, instance_id_buffer,
                    sample_dims, sample_tiles, sample_data, sample_phase,
                    startup_has_run, schedule_log, mesh_server, channels, load_stats, material_server, objects, removed_transforms, removed_meshids, binder_local, scene_bindings>>

NewComputeBoundsNoRead ==
    /\ phase = "new"
    /\ IF /\ NodeAt(nodes, 0).end > NodeAt(nodes, 0).start
          /\ ComputeBoundsPanics(nodes, tri_positions, tri_faces, 0)
          THEN /\ phase' = "panic"
               /\ UNCHANGED <<nodes, stack>>
          ELSE /\ nodes' = IF NodeAt(nodes, 0).end > NodeAt(nodes, 0).start
                              THEN compute_bounds(nodes, tri_positions, tri_faces, 0)
                              ELSE nodes
               /\ stack' = <<SubdivideFrame(0)>>
               /\ phase' = "subdivide"
    /\ UNCHANGED <<tri_faces, guarded>>
    /\ UNCHANGED buildUnchanged

\* bvh.compute_bounds(0); bvh.subdivide(0, threshold) is entered
NewComputeBounds ==
    /\ phase = "new"
    /\ IF ComputeBoundsPanics(nodes, tri_positions, tri_faces, 0)
          THEN /\ phase' = "panic"
               /\ UNCHANGED <<nodes, stack>>
          ELSE /\ nodes' = compute_bounds(nodes, tri_positions, tri_faces, 0)
               /\ stack' = <<SubdivideFrame(0)>>
               /\ phase' = "subdivide"
    /\ UNCHANGED <<tri_faces, guarded>>
    /\ UNCHANGED buildUnchanged

\* subdivide, from its entry to the start of the partition loop
SubdivideEnter ==
    /\ phase = "subdivide"
    /\ Top.pc = "enter"
    /\ LET node == NodeAt(nodes, Top.node_idx)
       IN  IF ~node.is_leaf
              THEN /\ stack' = Call([Top EXCEPT !.pc = "after_left", !.node = node,
                                                !.l = node.left, !.r = node.right,
                                                !.rewrite = FALSE],
                                    SubdivideFrame(node.left))
                   /\ phase' = phase
              ELSE IF WithinThreshold(node, threshold)
                  THEN Return
                  ELSE LET axis == LongestAxis(node.bounds)
                       IN  /\ stack' = SetTop([Top EXCEPT !.pc = "loop", !.node = node,
                                                          !.axis = axis,
                                                          !.split = SplitOf(node.bounds, axis),
                                                          !.i = node.start,
                                                          !.j = node.end - 1,
                                                          !.before = tri_faces])
                           /\ phase' = phase
    /\ UNCHANGED <<nodes, tri_faces, guarded>>
    /\ UNCHANGED buildUnchanged

\* one iteration of  while i <= j { ... }
\* j is a usize: j -= 1 at j = 0 panics in a debug build; a release build
\* wraps to usize::MAX and the next iteration swaps out of range, which
\* panics too.
PartitionStep ==
    /\ phase = "subdivide"
    /\ Top.pc = "loop"
    /\ Top.i <= Top.j
    /\ IF GoesLeft(face_centroid(tri_positions, tri_faces, Top.i)[Top.axis + 1], Top.split)
          THEN /\ stack' = SetTop([Top EXCEPT !.i = Top.i + 1])
               /\ phase' = phase
               /\ tri_faces' = tri_faces
          ELSE /\ tri_faces' = elem_swap(tri_faces, Top.i, Top.j)
               /\ IF Top.j = 0
                     THEN /\ phase' = "panic"
                          /\ stack' = stack
                     ELSE /\ stack' = SetTop([Top EXCEPT !.j = Top.j - 1])
                          /\ phase' = phase
    /\ UNCHANGED <<nodes, guarded>>
    /\ UNCHANGED buildUnchanged

\* after the loop: the one-sided guard, or the two children are pushed,
\* bounded, and subdivide(l) is entered
PartitionEnd ==
    /\ phase = "subdivide"
    /\ Top.pc = "loop"
    /\ Top.i > Top.j
    /\ IF Top.i = Top.node.end \/ Top.i = Top.node.start
          THEN /\ guarded' = guarded \cup {Top.node_idx}
               /\ nodes' = nodes
               /\ Return
          ELSE LET l == Len(nodes)
                   r == Len(nodes) + 1
                   pushed == Append(Append(nodes, LeftLeaf(Top.node, Top.i)),
                                    RightLeaf(Top.node, Top.i))
               IN  IF \/ ComputeBoundsPanics(pushed, tri_positions, tri_faces, l)
                      \/ ComputeBoundsPanics(pushed, tri_positions, tri_faces, r)
                      THEN /\ phase' = "panic"
                           /\ UNCHANGED <<nodes, stack, guarded>>
                      ELSE /\ nodes' = compute_bounds(
                                          compute_bounds(pushed, tri_positions, tri_faces, l),
                                          tri_positions, tri_faces, r)
                           /\ stack' = Call([Top EXCEPT !.pc = "after_left", !.l = l,
                                                        !.r = r, !.rewrite = TRUE],
                                            SubdivideFrame(l))
                           /\ phase' = phase
                           /\ guarded' = guarded
    /\ UNCHANGED tri_faces
    /\ UNCHANGED buildUnchanged

\* subdivide(l) has returned: self.subdivide(r, threshold)
SubdivideRight ==
    /\ phase = "subdivide"
    /\ Top.pc = "after_left"
    /\ stack' = Call([Top EXCEPT !.pc = "after_right"], SubdivideFrame(Top.r))
    /\ UNCHANGED <<nodes, tri_faces, guarded, phase>>
    /\ UNCHANGED buildUnchanged

\* subdivide(r) has returned: the node is rewritten as an internal node and
\* bounded (a node that was internal on entry just returns)
SubdivideFinish ==
    /\ phase = "subdivide"
    /\ Top.pc = "after_right"
    /\ nodes' = IF Top.rewrite
                   THEN compute_bounds(SetNode(nodes, Top.node_idx,
                                               InternalNode(Top.l, Top.r)),
                                       tri_positions, tri_faces, Top.node_idx)
                   ELSE nodes
    /\ Return
    /\ UNCHANGED <<tri_faces, guarded>>
    /\ UNCHANGED buildUnchanged


---------------------------------------------------------------------------
(* rights_to_skips *)

\* entry: the node's fields and the parent's right are read, then the left
\* child is converted
SkipsEnter ==
    /\ phase = "skips"
    /\ Top.pc = "enter"
    /\ LET node == NodeAt(nodes, Top.node_idx)
           me == [Top EXCEPT !.pc = "self", !.node = node,
                             !.p_right = NodeAt(nodes, Top.parent_idx).right]
       IN  stack' = IF ~node.is_leaf
                       THEN Call(me, SkipsFrame(Top.node_idx, node.left))
                       ELSE SetTop(me)
    /\ UNCHANGED <<nodes, tri_faces, guarded, phase>>
    /\ UNCHANGED buildUnchanged

\* the node's right becomes its skip, then the right child is converted
SkipsSelf ==
    /\ phase = "skips"
    /\ Top.pc = "self"
    /\ nodes' = SetNode(nodes, Top.node_idx,
                        [Top.node EXCEPT !.right = SkipValue(Top.node_idx, Top.p_right)])
    /\ IF ~Top.node.is_leaf
          THEN /\ stack' = Call([Top EXCEPT !.pc = "ret"],
                                SkipsFrame(Top.node_idx, Top.node.right))
               /\ phase' = phase
          ELSE Return
    /\ UNCHANGED <<tri_faces, guarded>>
    /\ UNCHANGED buildUnchanged

\* the right child is done: rights_to_skips returns
SkipsReturn ==
    /\ phase = "skips"
    /\ Top.pc = "ret"
    /\ Return
    /\ UNCHANGED <<nodes, tri_faces, guarded>>
    /\ UNCHANGED buildUnchanged

---------------------------------------------------------------------------
(* The stackless walk over a finished tree: at a hit internal node go to   *)
(* left, otherwise (a leaf, or a miss) go to the skip stored in right; the *)
(* walk is over when the next index is the sentinel 0.                     *)

NextIndex(node, hit) == IF hit /\ ~node.is_leaf THEN node.left ELSE node.right

WalkStep ==
    /\ phase = "done"
    /\ walk # "ended"
    /\ Len(visits) <= Len(nodes)
    /\ \E hit \in BOOLEAN :
        LET nxt == NextIndex(NodeAt(nodes, cur), hit)
        IN  /\ visits' = Append(visits, cur)
            /\ cur' = nxt
            /\ walk' = IF nxt = 0 THEN "ended" ELSE "walking"
            /\ allhit' = (allhit /\ hit)
    /\ UNCHANGED <<meshes, threshold, mesh, nodes, tri_positions, tri_faces, tri_normals,
                   stack, phase, guarded, bvhs, packed, pack_idx>>
    /\ UNCHANGED queueVars
    /\ UNCHANGED frameVars
    /\ UNCHANGED waveVars
    /\ UNCHANGED appVars
    /\ UNCHANGED sampleVars
    /\ UNCHANGED tlasVars

---------------------------------------------------------------------------
(* The caller: every mesh is built in input order, then the trees are      *)
(* merged.                                                                  *)

BuiltBVH ==
    [nodes |-> nodes, tri_positions |-> tri_positions, tri_faces |-> tri_faces,
     tri_normals |-> tri_normals]

PackedEmpty ==
    [nodes |-> <<>>, tri_positions |-> <<>>, tri_normals |-> <<>>, tri_faces |-> <<>>,
     roots |-> <<>>, face_offset |-> 0, vertex_offset |-> 0, node_offset |-> 0]

\* BVH::new returns; the next mesh is built, or the merge starts
NextMesh ==
    /\ phase = "done"
    /\ walk = "idle"
    /\ bvhs' = Append(bvhs, BuiltBVH)
    /\ IF meshes # <<>>
          THEN /\ Construct(Head(meshes))
               /\ meshes' = Tail(meshes)
               /\ UNCHANGED <<packed, pack_idx>>
          ELSE /\ phase' = "pack"
               /\ packed' = PackedEmpty
               /\ pack_idx' = 0
               /\ UNCHANGED <<meshes, mesh, nodes, tri_positions, tri_faces, tri_normals,
                              stack, guarded, cur, visits, walk, allhit>>
    /\ UNCHANGED threshold
    /\ UNCHANGED queueVars
    /\ UNCHANGED frameVars
    /\ UNCHANGED waveVars
    /\ UNCHANGED appVars
    /\ UNCHANGED sampleVars
    /\ UNCHANGED tlasVars

\* value as u32, that is value mod 2^32, computed in 16-bit halves
AsU32(x) == (x % 65536) + 65536 * ((x \div 65536) % 65536)

\* BVHNodeGPU::from
BVHNodeGPUFrom(value) ==
    [lower_bound |-> value.bounds.lb, upper_bound |-> value.bounds.ub,
     left |-> AsU32(value.left), right |-> AsU32(value.right),
     is_leaf |-> IF value.is_leaf THEN 1 ELSE 0,
     start |-> AsU32(value.start), end |-> AsU32(value.end)]

OffsetNodeSwapped(n, face_offset, node_offset) ==
    [n EXCEPT !.start = AsU32(@ + node_offset), !.end = AsU32(@ + node_offset),
              !.left = AsU32(@ + face_offset), !.right = AsU32(@ + face_offset)]

OffsetNodeSkipKept(n, face_offset, node_offset) ==
    [n EXCEPT !.start = AsU32(@ + face_offset), !.end = AsU32(@ + face_offset),
              !.left = AsU32(@ + node_offset)]

\* n.start += face_offset; n.end += face_offset;
\* n.left += node_offset; n.right += node_offset
OffsetNode(n, face_offset, node_offset) ==
    [n EXCEPT !.start = AsU32(@ + face_offset), !.end = AsU32(@ + face_offset),
              !.left = AsU32(@ + node_offset), !.right = AsU32(@ + node_offset)]

OffsetFaceNone(f, vertex_offset) == <<f[1], f[2], f[3], 0>>

\* f.map(|i| i + vertex_offset), padded to four words
OffsetFace(f, vertex_offset) ==
    <<AsU32(f[1] + vertex_offset), AsU32(f[2] + vertex_offset),
      AsU32(f[3] + vertex_offset), 0>>

Pad4(p) == <<p[1], p[2], p[3], 0>>

\* one iteration of  for bvh in bvhs { ... }
PackStep ==
    /\ phase = "pack"
    /\ pack_idx < Len(bvhs)
    /\ LET bvh == bvhs[pack_idx + 1]
           tpl == Len(bvh.tri_positions)
           tfl == Len(bvh.tri_faces)
           nl  == Len(bvh.nodes)
       IN  packed' =
             [nodes |-> packed.nodes \o
                  [k \in 1..nl |-> OffsetNode(BVHNodeGPUFrom(bvh.nodes[k]),
                                              packed.face_offset, packed.node_offset)],
              roots |-> Append(packed.roots, packed.node_offset),
              tri_positions |-> packed.tri_positions \o
                  [k \in 1..tpl |-> Pad4(bvh.tri_positions[k])],
              tri_normals |-> packed.tri_normals \o
                  [k \in 1..Len(bvh.tri_normals) |-> Pad4(bvh.tri_normals[k])],
              tri_faces |-> packed.tri_faces \o
                  [k \in 1..tfl |-> OffsetFace(bvh.tri_faces[k], packed.vertex_offset)],
              vertex_offset |-> AsU32(packed.vertex_offset + tpl),
              face_offset |-> AsU32(packed.face_offset + tfl),
              node_offset |-> AsU32(packed.node_offset + nl)]
    /\ pack_idx' = pack_idx + 1
    /\ UNCHANGED <<meshes, threshold, mesh, nodes, tri_positions, tri_faces, tri_normals,
                   stack, phase, guarded, cur, visits, walk, allhit, bvhs>>
    /\ UNCHANGED queueVars
    /\ UNCHANGED frameVars
    /\ UNCHANGED waveVars
    /\ UNCHANGED appVars
    /\ UNCHANGED sampleVars
    /\ UNCHANGED tlasVars

\* after the loop: an empty normal list gets one default normal
PackFinish ==
    /\ phase = "pack"
    /\ pack_idx = Len(bvhs)
    /\ packed' = IF Len(packed.tri_normals) = 0
                    THEN [packed EXCEPT !.tri_normals = <<<<0, 0, 0, 0>>>>]
                    ELSE packed
    /\ phase' = "packed"
    /\ UNCHANGED <<meshes, threshold, mesh, nodes, tri_positions, tri_faces, tri_normals,
                   stack, guarded, cur, visits, walk, allhit, bvhs, pack_idx>>
    /\ UNCHANGED queueVars
    /\ UNCHANGED frameVars
    /\ UNCHANGED waveVars
    /\ UNCHANGED appVars
    /\ UNCHANGED sampleVars
    /\ UNCHANGED tlasVars

Next ==
    \/ NewComputeBounds
    \/ SubdivideEnter
    \/ PartitionStep
    \/ PartitionEnd
    \/ SubdivideRight
    \/ SubdivideFinish
    \/ SkipsEnter
    \/ SkipsSelf
    \/ SkipsReturn
    \/ WalkStep
    \/ NextMesh
    \/ PackStep
    \/ PackFinish

Spec == Init /\ [][Next]_vars


---------------------------------------------------------------------------
(* Vocabulary of the properties *)

NodeIds == 0 .. Len(nodes) - 1
Leaves == {k \in NodeIds : NodeAt(nodes, k).is_leaf}
Internals == NodeIds \ Leaves

\* The build pushes the two children together: the right child follows the
\* left one.  (After rights_to_skips the right field holds the skip.)
LeftChild(k) == NodeAt(nodes, k).left
RightChild(k) == NodeAt(nodes, k).left + 1

Occurrences(s, x) == Cardinality({k \in 1..Len(s) : s[k] = x})
IsPermutation(s, t) ==
    /\ Len(s) = Len(t)
    /\ \A k \in 1..Len(s) : Occurrences(s, s[k]) = Occurrences(t, s[k])

SetMin(S) == CHOOSE x \in S : \A y \in S : x <= y
SetMax(S) == CHOOSE x \in S : \A y \in S : x >= y

\* the coordinates on axis a of all vertices of the faces at positions
\* start .. end-1
CoordsOf(start, end, a) ==
    {tri_positions[tri_faces[f + 1][c] + 1][a] : f \in start .. end - 1, c \in 1..3}

\* BVH::new has returned a tree
Done == phase = "done"

\* subdivide(0, threshold) has returned and rights_to_skips has not begun:
\* right still holds the right child
Subdivided == phase = "skips" /\ Len(stack) = 1 /\ Top.pc = "enter" /\ Top.node_idx = 0

\* C1: after a build the element sequence is a permutation of the input and
\* every position of [0,n) lies in exactly one leaf's [start,end).
C1_PartitionComplete ==
    Done =>
        /\ IsPermutation(tri_faces, mesh.faces)
        /\ \A k \in Leaves : NodeAt(nodes, k).end <= Len(tri_faces)
        /\ \A p \in 0 .. Len(tri_faces) - 1 :
               Cardinality({k \in Leaves : /\ NodeAt(nodes, k).start <= p
                                           /\ p < NodeAt(nodes, k).end}) = 1

C1_Witness ==
    /\ Done
    /\ Cardinality(Leaves) >= 3
    /\ tri_faces # mesh.faces

\* C2: after a build every internal node's bounds are the union of its two
\* children's bounds and every leaf's bounds are the union of the bounds of
\* the elements at positions start..end-1.
C2_BoundsConsistent ==
    /\ Subdivided =>
         \A k \in Internals : \A a \in 1..3 :
            LET n == NodeAt(nodes, k)
            IN  /\ n.bounds.lb[a] = SetMin({NodeAt(nodes, n.left).bounds.lb[a],
                                            NodeAt(nodes, n.right).bounds.lb[a]})
                /\ n.bounds.ub[a] = SetMax({NodeAt(nodes, n.left).bounds.ub[a],
                                            NodeAt(nodes, n.right).bounds.ub[a]})
    /\ Done =>
         /\ \A k \in Internals : \A a \in 1..3 :
              LET n == NodeAt(nodes, k)
              IN  /\ n.bounds.lb[a] = SetMin({NodeAt(nodes, LeftChild(k)).bounds.lb[a],
                                              NodeAt(nodes, RightChild(k)).bounds.lb[a]})
                  /\ n.bounds.ub[a] = SetMax({NodeAt(nodes, LeftChild(k)).bounds.ub[a],
                                              NodeAt(nodes, RightChild(k)).bounds.ub[a]})
         /\ \A k \in Leaves : \A a \in 1..3 :
              LET n == NodeAt(nodes, k)
              IN  /\ n.start < n.end
                  /\ n.bounds.lb[a] = SetMin(CoordsOf(n.start, n.end, a))
                  /\ n.bounds.ub[a] = SetMax(CoordsOf(n.start, n.end, a))

C2_Witness ==
    /\ Done
    /\ Cardinality(Internals) >= 2
    /\ \E k \in Leaves : NodeAt(nodes, k).end - NodeAt(nodes, k).start >= 2


\* C3: in a skip-link walk from the root no node is visited twice, whatever
\* the hits and misses; the walk never leaves the arena and stops at the
\* sentinel 0; with every node hit it has visited every leaf (every node)
\* exactly once when it stops.
C3_SkipWalk ==
    Done =>
        /\ \A a, b \in 1..Len(visits) : visits[a] = visits[b] => a = b
        /\ walk # "ended" =>
              /\ cur \in NodeIds
              /\ \A a \in 1..Len(visits) : visits[a] # cur
        /\ walk = "ended" =>
              /\ cur = 0
              /\ allhit => \A k \in NodeIds : Occurrences(visits, k) = 1

C3_Witness ==
    /\ Done
    /\ walk = "ended"
    /\ allhit
    /\ Cardinality(Leaves) >= 4
    /\ ~NodeAt(nodes, 1).is_leaf
    /\ ~NodeAt(nodes, 2).is_leaf

\* The range of positions a node covers: its stored range for a leaf, from
\* the start of its left child's to the end of its right child's otherwise.
RECURSIVE CoverStart(_)
CoverStart(k) ==
    IF NodeAt(nodes, k).is_leaf THEN NodeAt(nodes, k).start ELSE CoverStart(LeftChild(k))

RECURSIVE CoverEnd(_)
CoverEnd(k) ==
    IF NodeAt(nodes, k).is_leaf THEN NodeAt(nodes, k).end ELSE CoverEnd(RightChild(k))

\* C4 as stated: the stored ranges of the two children of every internal
\* node exactly partition the stored range of that node.
C4_StoredRanges ==
    Done =>
        \A k \in Internals :
            LET n == NodeAt(nodes, k)
                l == NodeAt(nodes, LeftChild(k))
                r == NodeAt(nodes, RightChild(k))
            IN  /\ l.start = n.start
                /\ l.end = r.start
                /\ r.end = n.end

\* C4, amended: an internal node stores the empty range [0,0); the ranges
\* its two children cover are non-empty and adjacent (the left one ends
\* where the right one starts), and the root covers [0,n).
C4_CoveredRanges ==
    Done =>
        /\ \A k \in Internals :
              /\ NodeAt(nodes, k).start = 0
              /\ NodeAt(nodes, k).end = 0
              /\ LeftChild(k) \in NodeIds
              /\ RightChild(k) \in NodeIds
              /\ LeftChild(k) > k
              /\ CoverStart(LeftChild(k)) < CoverEnd(LeftChild(k))
              /\ CoverEnd(LeftChild(k)) = CoverStart(RightChild(k))
              /\ CoverStart(RightChild(k)) < CoverEnd(RightChild(k))
        /\ CoverStart(0) = 0
        /\ CoverEnd(0) = Len(tri_faces)

C4_Witness ==
    /\ Done
    /\ Cardinality(Internals) >= 2

\* C5: after a build with threshold t every leaf holds at most t elements,
\* except the leaves the one-sided guard kept.
C5_ThresholdRespected ==
    Done =>
        \A k \in Leaves :
            \/ NodeAt(nodes, k).end - NodeAt(nodes, k).start <= threshold
            \/ k \in guarded

C5_Witness ==
    /\ Done
    /\ Cardinality(Leaves) >= 2
    /\ \E k \in Leaves : k \in guarded
    /\ \E k \in Leaves : k \notin guarded

\* every face index of the input mesh is a position index
MeshWellFormed ==
    \A f \in 1..Len(mesh.faces) : \A c \in 1..3 : mesh.faces[f][c] < Len(mesh.positions)

\* C6 as stated: a build over at least one element with a threshold of at
\* least 1 never fails.
C6_BuildNeverFails ==
    (Len(mesh.faces) >= 1 /\ MeshWellFormed /\ threshold >= 1) => phase # "panic"


---------------------------------------------------------------------------
(* The merged buffers *)

RECURSIVE SumFirst(_, _)
SumFirst(lens, k) == IF k = 0 THEN 0 ELSE lens[k] + SumFirst(lens, k - 1)

\* the totals over trees 0..k-1 of the list handed to the packer
VertexCountBefore(k) == SumFirst([m \in 1..Len(bvhs) |-> Len(bvhs[m].tri_positions)], k)
FaceCountBefore(k)   == SumFirst([m \in 1..Len(bvhs) |-> Len(bvhs[m].tri_faces)], k)
NodeCountBefore(k)   == SumFirst([m \in 1..Len(bvhs) |-> Len(bvhs[m].nodes)], k)

Packing == phase \in {"pack", "packed"}

\* C7: every face index of mesh k in the merged face buffer, less the
\* position count of meshes 0..k-1, is an index into mesh k's positions.
C7_MergedFaceIndices ==
    Packing =>
        /\ Len(packed.tri_faces) = FaceCountBefore(pack_idx)
        /\ \A k \in 0 .. pack_idx - 1 :
             \A f \in 1 .. Len(bvhs[k + 1].tri_faces) : \A c \in 1..3 :
                LET local == packed.tri_faces[FaceCountBefore(k) + f][c]
                                 - VertexCountBefore(k)
                IN  /\ 0 <= local
                    /\ local < Len(bvhs[k + 1].tri_positions)

C7_Witness ==
    /\ phase = "packed"
    /\ Len(bvhs) >= 2
    /\ Len(bvhs[1].tri_positions) # Len(bvhs[2].tri_positions)
    /\ Len(packed.tri_faces) >= 3

\* C8: roots[k] is the node count of trees 0..k-1, and node i of tree k is
\* at roots[k] + i with start/end raised by the face count of trees 0..k-1
\* and left/right raised by roots[k].
C8_PackOffsets ==
    Packing =>
        /\ Len(packed.roots) = pack_idx
        /\ Len(packed.nodes) = NodeCountBefore(pack_idx)
        /\ \A k \in 0 .. pack_idx - 1 :
             /\ packed.roots[k + 1] = NodeCountBefore(k)
             /\ \A i \in 0 .. Len(bvhs[k + 1].nodes) - 1 :
                  LET src == bvhs[k + 1].nodes[i + 1]
                      out == packed.nodes[packed.roots[k + 1] + i + 1]
                  IN  /\ out.start = src.start + FaceCountBefore(k)
                      /\ out.end = src.end + FaceCountBefore(k)
                      /\ out.left = src.left + packed.roots[k + 1]
                      /\ out.right = src.right + packed.roots[k + 1]
                      /\ out.is_leaf = (IF src.is_leaf THEN 1 ELSE 0)
                      /\ out.lower_bound = src.bounds.lb
                      /\ out.upper_bound = src.bounds.ub

C8_Witness ==
    /\ phase = "packed"
    /\ Len(bvhs) >= 2
    /\ Len(bvhs[1].nodes) >= 3
    /\ Len(bvhs[1].nodes) # Len(bvhs[1].tri_faces)

---------------------------------------------------------------------------
(* The work queue: Queue::new, and lanes that each append one item with an *)
(* atomic fetch-and-add of the write counter followed by a plain store.    *)

MaxLanes == 4

QueueNewCounterStale == <<0, 1>>

\* contents: bytemuck::bytes_of(&[0u32, 0u32])
QueueNewCounter == <<0, 0>>

\* size u32s, zero-filled by the device on creation
QueueNewBuffer(size) == [k \in 1..size |-> 0]

BvhIdle ==
    /\ meshes = <<>>
    /\ threshold = 1
    /\ mesh = MeshSmall
    /\ nodes = <<>>
    /\ tri_positions = <<>>
    /\ tri_faces = <<>>
    /\ tri_normals = <<>>
    /\ stack = <<>>
    /\ phase = "idle"
    /\ guarded = {}
    /\ cur = 0
    /\ visits = <<>>
    /\ walk = "idle"
    /\ allhit = TRUE
    /\ bvhs = <<>>
    /\ packed = <<>>
    /\ pack_idx = 0

InitQueue ==
    /\ AppIdle
    /\ SampleIdle
    /\ TlasIdle
    /\ WaveIdle
    /\ BvhIdle
    /\ FrameIdle
    /\ \E n \in 1..MaxLanes : \E size \in n..MaxLanes :
        /\ counter = QueueNewCounter
        /\ queue_buffer = QueueNewBuffer(size)
        /\ lane_pc = [l \in 1..n |-> "start"]
        /\ lane_slot = [l \in 1..n |-> 0]

Lanes == 1 .. Len(lane_pc)

\* slot = atomicAdd(&counter.write, 1)
LaneFetchAdd(l) ==
    /\ lane_pc[l] = "start"
    /\ lane_slot' = [lane_slot EXCEPT ![l] = counter[2]]
    /\ counter' = [counter EXCEPT ![2] = AsU32(@ + 1)]
    /\ lane_pc' = [lane_pc EXCEPT ![l] = "store"]
    /\ UNCHANGED queue_buffer
    /\ UNCHANGED bvhVars
    /\ UNCHANGED frameVars
    /\ UNCHANGED waveVars
    /\ UNCHANGED appVars
    /\ UNCHANGED sampleVars
    /\ UNCHANGED tlasVars

\* queue[slot] = item; the item of lane l is its invocation index l - 1
\* (a store past the end of the buffer is dropped by the device)
LaneStore(l) ==
    /\ lane_pc[l] = "store"
    /\ queue_buffer' = IF lane_slot[l] < Len(queue_buffer)
                          THEN [queue_buffer EXCEPT ![lane_slot[l] + 1] = l - 1]
                          ELSE queue_buffer
    /\ lane_pc' = [lane_pc EXCEPT ![l] = "done"]
    /\ UNCHANGED <<counter, lane_slot>>
    /\ UNCHANGED bvhVars
    /\ UNCHANGED frameVars
    /\ UNCHANGED waveVars
    /\ UNCHANGED appVars
    /\ UNCHANGED sampleVars
    /\ UNCHANGED tlasVars

FetchAdd == \E l \in Lanes : LaneFetchAdd(l)

Store == \E l \in Lanes : LaneStore(l)

NextQueue ==
    \/ FetchAdd
    \/ Store

SpecQueue == InitQueue /\ [][NextQueue]_vars

\* C9: the lanes that have fetched hold pairwise distinct slots; when all
\* N lanes are done the write counter is N, the slots are 0..N-1 and every
\* lane's item is still in its slot.
C9_SlotsUnique ==
    /\ \A a, b \in Lanes :
          (a # b /\ lane_pc[a] # "start" /\ lane_pc[b] # "start")
              => lane_slot[a] # lane_slot[b]
    /\ (\A l \in Lanes : lane_pc[l] = "done") =>
          /\ counter[2] = Len(lane_pc)
          /\ {lane_slot[l] : l \in Lanes} = 0 .. Len(lane_pc) - 1
          /\ \A l \in Lanes : queue_buffer[lane_slot[l] + 1] = l - 1

C9_Witness ==
    /\ Len(lane_pc) >= 3
    /\ \A l \in Lanes : lane_pc[l] = "done"
    /\ lane_slot[1] > lane_slot[2]

---------------------------------------------------------------------------
(* State::render: one submission per frame; the device runs the command    *)
(* buffers in submission order.                                             *)

MaxFrames == 6

SubmitOrderExtensionFirst ==
    <<"logic", "new_ray", "extension", "metallic", "lambertian", "renderer">>

\* self.queue.submit([logic_commands, new_ray_commands, metallic_commands,
\*                    lambertian_commands, extension_commands, renderer_commands])
SubmitOrder ==
    <<"logic", "new_ray", "metallic", "lambertian", "extension", "renderer">>

InitFrame ==
    /\ AppIdle
    /\ SampleIdle
    /\ TlasIdle
    /\ WaveIdle
    /\ BvhIdle
    /\ QueueIdle
    /\ is_surface_configured = FALSE
    /\ frame = 0
    /\ gpu_timeline = <<>>
    /\ gpu_done = 0

\* State::resize
Resize ==
    /\ \E width, height \in 0..1 :
          is_surface_configured' =
              IF width > 0 /\ height > 0 THEN TRUE ELSE is_surface_configured
    /\ UNCHANGED <<frame, gpu_timeline, gpu_done>>
    /\ UNCHANGED bvhVars
    /\ UNCHANGED queueVars
    /\ UNCHANGED waveVars
    /\ UNCHANGED appVars
    /\ UNCHANGED sampleVars
    /\ UNCHANGED tlasVars

\* State::render: nothing is submitted before the surface is configured
Render ==
    /\ frame < MaxFrames
    /\ IF ~is_surface_configured
          THEN UNCHANGED <<frame, gpu_timeline>>
          ELSE /\ frame' = frame + 1
               /\ gpu_timeline' = gpu_timeline \o
                      [k \in 1..Len(SubmitOrder) |->
                          [frame |-> frame + 1, cmd |-> SubmitOrder[k]]]
    /\ UNCHANGED <<is_surface_configured, gpu_done>>
    /\ UNCHANGED bvhVars
    /\ UNCHANGED queueVars
    /\ UNCHANGED waveVars
    /\ UNCHANGED appVars
    /\ UNCHANGED sampleVars
    /\ UNCHANGED tlasVars

\* the device finishes the next command buffer of its timeline
GpuExecute ==
    /\ gpu_done < Len(gpu_timeline)
    /\ gpu_done' = gpu_done + 1
    /\ UNCHANGED <<is_surface_configured, frame, gpu_timeline>>
    /\ UNCHANGED bvhVars
    /\ UNCHANGED queueVars
    /\ UNCHANGED waveVars
    /\ UNCHANGED appVars
    /\ UNCHANGED sampleVars
    /\ UNCHANGED tlasVars

NextFrame ==
    \/ Resize
    \/ Render
    \/ GpuExecute

SpecFrame == InitFrame /\ [][NextFrame]_vars

\* the place of command c of frame f on the device timeline (0: not there)
PlaceOf(f, c) ==
    LET S == {k \in 1..Len(gpu_timeline) :
                 gpu_timeline[k].frame = f /\ gpu_timeline[k].cmd = c}
    IN  IF S = {} THEN 0 ELSE SetMin(S)

---------------------------------------------------------------------------
(* The wavefront scheduler: the four work queues of State::new, the path   *)
(* buffer, and the dispatches of one frame's command buffers run in        *)
(* submission order.  What a pass can touch is what its render() binds;    *)
(* what the kernels do with it is taken from the design description.       *)

MaxPaths == 2
MaxWaveFrames == 4
BounceCap == 1

\* the work queues of State::new
QueueNames == {"new_ray", "extension", "lambertian", "metallic"}

\* &[&self.lambertian_queue, &self.metallic_queue]
MaterialQueues == <<"lambertian", "metallic">>

MaterialKinds == {MaterialQueues[k] : k \in 1..Len(MaterialQueues)}

\* the queues a command buffer's compute pass binds
LogicQueues == {"new_ray"} \cup MaterialKinds

BoundQueues(cmd) ==
    CASE cmd = "logic" -> LogicQueues
      [] cmd = "new_ray" -> {"new_ray", "extension"}
      [] cmd \in MaterialKinds -> {cmd, "extension"}
      [] cmd = "extension" -> {"extension"}
      [] OTHER -> {}

\* the dispatches a command buffer records, in order
CommandDispatches(cmd) ==
    IF cmd = "logic" THEN <<"logicStart", "logicMain">> ELSE <<cmd>>

RECURSIVE FrameDispatchesFrom(_)
FrameDispatchesFrom(k) ==
    IF k > Len(SubmitOrder) THEN <<>>
    ELSE [d \in 1..Len(CommandDispatches(SubmitOrder[k])) |->
             [cmd |-> SubmitOrder[k], dispatch |-> CommandDispatches(SubmitOrder[k])[d]]]
         \o FrameDispatchesFrom(k + 1)

FrameDispatches == FrameDispatchesFrom(1)

\* u32::div_ceil
DivCeilFloor(a, b) == a \div b

DivCeil(a, b) ==
    LET d == a \div b
        r == a % b
    IN  IF r > 0 THEN d + 1 ELSE d

\* Queue::new(device, size, label): a zeroed counter pair, size slots
QueueNew(size) == [size |-> size, counter |-> <<0, 0>>, buffer |-> <<>>]

\* Path::zeroed()
PathZeroed == [state |-> "Generated", bounces |-> 0, hit |-> "none"]

WaveLanes == 0 .. MaxPaths - 1

InitWave ==
    /\ AppIdle
    /\ SampleIdle
    /\ TlasIdle
    /\ BvhIdle
    /\ QueueIdle
    /\ FrameIdle
    /\ \E n \in 1..MaxPaths : \E size \in n..MaxPaths :
          /\ paths = [l \in 1..n |-> PathZeroed]
          /\ queues = [q \in QueueNames |-> QueueNew(size)]
    /\ wave_frame = 0
    /\ wave_timeline = <<>>
    /\ wave_done = 0
    /\ resets = [q \in QueueNames |-> 0]
    /\ early = {}
    /\ workgroups = [q \in QueueNames |-> -1]

\* a lane's append: atomic fetch-and-increment of the write counter, then
\* the store at the returned slot (a store past the end of the buffer
\* binding is dropped)
QueuePush(W, q, lane) ==
    LET Q == W.queues[q]
        slot == Q.counter[2]
        buf == IF slot < Len(Q.buffer) THEN [Q.buffer EXCEPT ![slot + 1] = lane]
               ELSE IF slot = Len(Q.buffer) /\ slot < Q.size THEN Append(Q.buffer, lane)
               ELSE Q.buffer
    IN  [W EXCEPT !.queues[q] = [Q EXCEPT !.counter = <<Q.counter[1], slot + 1>>,
                                          !.buffer = buf]]

\* the reset kernel: zero the counter pair of every queue bound to the pass
RECURSIVE ResetQueues(_, _)
ResetQueues(qs, S) ==
    IF S = {} THEN qs
    ELSE LET q == CHOOSE x \in S : TRUE
         IN  ResetQueues([qs EXCEPT ![q].counter = <<0, 0>>], S \ {q})

\* the logic kernel, lane l: a fresh or terminated path is respawned into
\* the new-ray queue, a path with a recorded hit goes to the queue of the
\* hit's material kind
LogicLane(W, l) ==
    LET p == W.paths[l + 1]
    IN  IF p.state \in {"Generated", "Terminated"}
            THEN QueuePush([W EXCEPT !.paths[l + 1] = PathZeroed], "new_ray", l)
        ELSE IF p.state = "Extending" /\ p.hit \in MaterialKinds
            THEN QueuePush([W EXCEPT !.paths[l + 1].state = "Shading"], p.hit, l)
        ELSE W

\* ray generation, the lane stored at slot t of the new-ray queue
NewRayThread(W, t) ==
    LET l == W.queues["new_ray"].buffer[t + 1]
        p == W.paths[l + 1]
    IN  IF p.state = "Generated"
            THEN QueuePush([W EXCEPT !.paths[l + 1].state = "Extending",
                                     !.paths[l + 1].hit = "none"], "extension", l)
            ELSE W

\* the bounce cap: a path that has bounced more than BounceCap times ends
OverCapNever(b) == FALSE

OverCap(b) == b > BounceCap

\* shading of kind k, the lane stored at slot t of its queue: the path
\* either continues into the extension queue or ends
MaterialThread(W, k, t, ch) ==
    LET l == W.queues[k].buffer[t + 1]
        p == W.paths[l + 1]
        b == p.bounces + 1
    IN  IF p.state = "Shading" /\ p.hit = k
            THEN IF OverCap(b) \/ ch[l + 1] = "stop"
                    THEN [W EXCEPT !.paths[l + 1].state = "Terminated",
                                   !.paths[l + 1].bounces = b]
                    ELSE QueuePush([W EXCEPT !.paths[l + 1].state = "Extending",
                                             !.paths[l + 1].hit = "none",
                                             !.paths[l + 1].bounces = b],
                                   "extension", l)
            ELSE W

ExtensionThreadRespawn(W, t, ch) ==
    LET l == W.queues["extension"].buffer[t + 1]
        p == W.paths[l + 1]
    IN  IF p.state = "Extending" /\ p.hit = "none"
            THEN IF ch[l + 1] = "stop"
                    THEN QueuePush([W EXCEPT !.paths[l + 1] = PathZeroed], "new_ray", l)
                    ELSE [W EXCEPT !.paths[l + 1].hit = ch[l + 1]]
            ELSE W

\* traversal, the lane stored at slot t of the extension queue: a miss ends
\* the path, a hit is recorded with its material kind
ExtensionThread(W, t, ch) ==
    LET l == W.queues["extension"].buffer[t + 1]
        p == W.paths[l + 1]
    IN  IF p.state = "Extending" /\ p.hit = "none"
            THEN IF ch[l + 1] = "stop"
                    THEN [W EXCEPT !.paths[l + 1].state = "Terminated"]
                    ELSE [W EXCEPT !.paths[l + 1].hit = ch[l + 1]]
            ELSE W

KernelThread(W, d, t, ch) ==
    CASE d = "logicMain" -> LogicLane(W, t)
      [] d = "new_ray" -> NewRayThread(W, t)
      [] d \in MaterialKinds -> MaterialThread(W, d, t, ch)
      [] d = "extension" -> ExtensionThread(W, t, ch)
      [] OTHER -> W

\* the threads 0 .. limit-1 of a dispatch
RECURSIVE RunThreads(_, _, _, _, _)
RunThreads(W, d, t, limit, ch) ==
    IF t >= limit THEN W
    ELSE RunThreads(KernelThread(W, d, t, ch), d, t + 1, limit, ch)

\* the threads of a draining dispatch that find an entry: those below the
\* live counter and inside the buffer
LiveThreads(Q) == IF Q.counter[2] < Len(Q.buffer) THEN Q.counter[2] ELSE Len(Q.buffer)

Outcomes == {"stop"} \cup MaterialKinds

\* the next dispatch of the device timeline
HeadDispatch == wave_timeline[wave_done + 1]

FirstOfFrame == wave_done % Len(FrameDispatches) = 0

LastOfFrame == wave_done > 0 /\ wave_done % Len(FrameDispatches) = 0

\* bookkeeping of one executed dispatch: which queues a reset has reached in
\* this frame, and which were appended to or drained before their reset
Executed(cmd, isReset) ==
    LET r0 == IF FirstOfFrame THEN [q \in QueueNames |-> 0] ELSE resets
        e0 == IF FirstOfFrame THEN {} ELSE early
    IN  /\ wave_done' = wave_done + 1
        /\ resets' = IF isReset
                        THEN [q \in QueueNames |->
                                 IF q \in BoundQueues(cmd) THEN r0[q] + 1 ELSE r0[q]]
                        ELSE r0
        /\ early' = IF isReset THEN e0
                    ELSE e0 \cup {q \in BoundQueues(cmd) : r0[q] = 0}
        /\ UNCHANGED <<wave_frame, wave_timeline>>
        /\ UNCHANGED bvhVars
        /\ UNCHANGED queueVars
        /\ UNCHANGED frameVars
        /\ UNCHANGED appVars
        /\ UNCHANGED sampleVars
        /\ UNCHANGED tlasVars

\* State::render: the command buffers of one frame are recorded and
\* submitted; the CPU does not wait for the device
SubmitFrame ==
    /\ wave_frame < MaxWaveFrames
    /\ wave_frame' = wave_frame + 1
    /\ wave_timeline' = wave_timeline \o
           [k \in 1..Len(FrameDispatches) |->
               [frame |-> wave_frame + 1,
                cmd |-> FrameDispatches[k].cmd,
                dispatch |-> FrameDispatches[k].dispatch]]
    /\ UNCHANGED <<queues, paths, wave_done, resets, early, workgroups>>
    /\ UNCHANGED bvhVars
    /\ UNCHANGED queueVars
    /\ UNCHANGED frameVars
    /\ UNCHANGED appVars
    /\ UNCHANGED sampleVars
    /\ UNCHANGED tlasVars

\* LogicPhase::render, first dispatch: "Start Pipeline to reset the queues"
LogicStart ==
    /\ wave_done < Len(wave_timeline)
    /\ HeadDispatch.dispatch = "logicStart"
    /\ queues' = ResetQueues(queues, BoundQueues("logic"))
    /\ UNCHANGED <<paths, workgroups>>
    /\ Executed("logic", TRUE)

\* LogicPhase::render, second dispatch: one thread per lane
LogicMain ==
    /\ wave_done < Len(wave_timeline)
    /\ HeadDispatch.dispatch = "logicMain"
    /\ LET W == RunThreads([paths |-> paths, queues |-> queues], "logicMain", 0,
                           Len(paths), <<>>)
       IN  /\ paths' = W.paths
           /\ queues' = W.queues
    /\ UNCHANGED workgroups
    /\ Executed("logic", FALSE)

\* NewRayPhase::render
NewRay ==
    /\ wave_done < Len(wave_timeline)
    /\ HeadDispatch.dispatch = "new_ray"
    /\ LET W == RunThreads([paths |-> paths, queues |-> queues], "new_ray", 0,
                           LiveThreads(queues["new_ray"]), <<>>)
       IN  /\ paths' = W.paths
           /\ queues' = W.queues
    /\ workgroups' = [workgroups EXCEPT !["new_ray"] = DivCeil(queues["new_ray"].size, 64)]
    /\ Executed("new_ray", FALSE)

\* Material::render (LambertianPhase, MetallicPhase)
MaterialShade ==
    /\ wave_done < Len(wave_timeline)
    /\ HeadDispatch.dispatch \in MaterialKinds
    /\ \E ch \in [1..Len(paths) -> {"stop", "go"}] :
          LET k == HeadDispatch.dispatch
              W == RunThreads([paths |-> paths, queues |-> queues], k, 0,
                              LiveThreads(queues[k]), ch)
          IN  /\ paths' = W.paths
              /\ queues' = W.queues
              /\ workgroups' = [workgroups EXCEPT ![k] = DivCeil(queues[k].size, 64)]
    /\ Executed(HeadDispatch.dispatch, FALSE)

\* ExtensionPhase::render
Extension ==
    /\ wave_done < Len(wave_timeline)
    /\ HeadDispatch.dispatch = "extension"
    /\ \E ch \in [1..Len(paths) -> Outcomes] :
          LET W == RunThreads([paths |-> paths, queues |-> queues], "extension", 0,
                              LiveThreads(queues["extension"]), ch)
          IN  /\ paths' = W.paths
              /\ queues' = W.queues
    /\ workgroups' = [workgroups EXCEPT !["extension"] = DivCeil(queues["extension"].size, 64)]
    /\ Executed("extension", FALSE)

\* RenderPhase::render: the display pass touches no queue and no path
Renderer ==
    /\ wave_done < Len(wave_timeline)
    /\ HeadDispatch.dispatch = "renderer"
    /\ UNCHANGED <<queues, paths, workgroups>>
    /\ Executed("renderer", FALSE)

NextWave ==
    \/ SubmitFrame
    \/ LogicStart
    \/ LogicMain
    \/ NewRay
    \/ MaterialShade
    \/ Extension
    \/ Renderer

SpecWave == InitWave /\ [][NextWave]_vars

\* the dispatch the device executed last
LastDispatch == wave_timeline[wave_done]

\* C11 as stated: when the reset dispatch of a frame has run, the counters
\* of the new-ray queue, the extension queue and every material queue are 0.
C11_ResetZeroesAll ==
    (wave_done > 0 /\ LastDispatch.dispatch = "logicStart") =>
        \A q \in QueueNames : queues[q].counter = <<0, 0>>

\* C12 as stated: every queue's counter is reset exactly once per frame, no
\* dispatch of a frame appends to or drains a queue before that frame's
\* reset of it, and the dispatches of the frames do not interleave.
C12_ResetOncePerFrame ==
    /\ early = {}
    /\ LastOfFrame => \A q \in QueueNames : resets[q] = 1
    /\ \A a, b \in 1..Len(wave_timeline) :
          a < b => wave_timeline[a].frame <= wave_timeline[b].frame

\* the change of state of lane l in a step, and whether it is a change
PathStep(l) == <<paths[l].state, paths'[l].state>>

ClaimedSteps ==
    {<<"Generated", "Extending">>, <<"Extending", "Shading">>,
     <<"Shading", "Extending">>, <<"Shading", "Terminated">>}

Respawn(l) ==
    /\ PathStep(l) = <<"Terminated", "Generated">>
    /\ HeadDispatch.cmd = "logic"

\* C13 as stated: a path changes state only along Generated -> Extending,
\* Extending -> Shading(k), Shading(k) -> Extending, Shading(k) ->
\* Terminated, and from Terminated to Generated in a frame's reset phase.
C13_ClaimedTransitions ==
    [][\A l \in 1..Len(paths) :
          paths[l].state # paths'[l].state =>
              (PathStep(l) \in ClaimedSteps \/ Respawn(l))]_vars

\* C13, amended: a path changes state only along Generated -> Extending,
\* Extending -> Shading(k), Extending -> Terminated (a miss), Shading(k) ->
\* Extending, Shading(k) -> Terminated, and from Terminated to Generated in
\* a frame's reset phase; a path enters Shading(k) only with k the kind of
\* its recorded hit.
C13_Transitions ==
    [][\A l \in 1..Len(paths) :
          paths[l].state # paths'[l].state =>
              /\ \/ PathStep(l) \in ClaimedSteps \cup {<<"Extending", "Terminated">>}
                 \/ Respawn(l)
              /\ paths'[l].state = "Shading" => paths'[l].hit \in MaterialKinds]_vars

C13_Witness ==
    /\ wave_done > Len(FrameDispatches)
    /\ \E l \in 1..Len(paths) : paths[l].state = "Generated"
    /\ \E l \in 1..Len(paths) : paths[l].state = "Shading" /\ paths[l].bounces >= 1

\* C14: a path is shaded at most BounceCap + 1 times between its spawn and
\* its end: a path whose bounce count exceeds the cap is Terminated, and is
\* not in the extension stage again before the reset phase respawns it.
C14_BounceCap ==
    \A l \in 1..Len(paths) :
        /\ paths[l].bounces <= BounceCap + 1
        /\ paths[l].bounces > BounceCap => paths[l].state = "Terminated"

C14_Witness ==
    \E l \in 1..Len(paths) :
        /\ paths[l].bounces = BounceCap + 1
        /\ paths[l].state = "Terminated"

---------------------------------------------------------------------------
(* Dispatch sizes: the same frames, one lane, over every queue capacity.   *)

MaxCapacity == 130

InitDispatch ==
    /\ AppIdle
    /\ SampleIdle
    /\ TlasIdle
    /\ BvhIdle
    /\ QueueIdle
    /\ FrameIdle
    /\ \E size \in 0..MaxCapacity :
          queues = [q \in QueueNames |-> QueueNew(size)]
    /\ paths = <<PathZeroed>>
    /\ wave_frame = 0
    /\ wave_timeline = <<>>
    /\ wave_done = 0
    /\ resets = [q \in QueueNames |-> 0]
    /\ early = {}
    /\ workgroups = [q \in QueueNames |-> -1]

SpecDispatch == InitDispatch /\ [][NextWave]_vars

\* C17: the extension and material passes dispatch ceil(c/64) workgroups of
\* 64 threads for a queue of capacity c: at least c threads and fewer than
\* c + 64, whatever the live counter of the queue.
C17_DispatchSize ==
    \A q \in MaterialKinds \cup {"extension"} :
        workgroups[q] # -1 =>
            /\ 64 * workgroups[q] >= queues[q].size
            /\ 64 * workgroups[q] < queues[q].size + 64

C17_Witness ==
    /\ queues["extension"].size = 65
    /\ workgroups["extension"] = 2
    /\ workgroups["lambertian"] = 2
    /\ queues["extension"].counter[2] >= 2
    /\ queues["lambertian"].counter[2] = 1

---------------------------------------------------------------------------
(* Further properties of the build and the merge *)

\* C15 as stated: the merged buffers are never produced from a mesh with
\* fewer normals than positions.
C15_FewNormalsFatal ==
    phase = "packed" =>
        \A k \in 1..Len(bvhs) : Len(bvhs[k].tri_normals) >= Len(bvhs[k].tri_positions)

\* C16: a build over zero elements aborts: it never gets past its first
\* compute_bounds and no tree over zero elements is ever returned.
C16_ZeroElementsAbort ==
    /\ (phase # "idle" /\ Len(mesh.faces) = 0) => phase \in {"new", "panic"}
    /\ \A k \in 1..Len(bvhs) : Len(bvhs[k].tri_faces) > 0

C16_Witness ==
    /\ Len(mesh.faces) = 0
    /\ phase = "panic"

\* the elements of a frame's node all lie on one side of its split
OneSided(f) ==
    \/ \A p \in f.node.start .. f.node.end - 1 :
          GoesLeft(face_centroid(tri_positions, tri_faces, p)[f.axis + 1], f.split)
    \/ \A p \in f.node.start .. f.node.end - 1 :
          ~GoesLeft(face_centroid(tri_positions, tri_faces, p)[f.axis + 1], f.split)

InLoop(f) == f.fn = "subdivide" /\ f.pc = "loop"

\* C18 as stated: a node over the threshold whose elements all fall on one
\* side of the split, all left or all right, the root included, has its
\* split aborted: the build goes on, the node is still the leaf it was and
\* the arena has not grown during its partition.
C18_GuardAborts ==
    (phase \in {"subdivide", "panic"} /\ stack # <<>> /\ InLoop(Top) /\ OneSided(Top)) =>
        /\ phase # "panic"
        /\ NodeAt(nodes, Top.node_idx) = Top.node
        /\ Top.node.is_leaf

\* C19: during the partition loop of a node the elements at start..i-1 have
\* their centroid strictly below the split and those at j+1..end-1 at or
\* above it; when the loop ends, i = j + 1, so [start,i) is strictly below
\* and [i,end) at or above (a centroid equal to the split is on the right);
\* the elements of [start,end) are a permutation of those before the loop
\* and no element outside the range has moved.
C19_PartitionLoop ==
    (phase = "subdivide" /\ InLoop(Top)) =>
        LET f == Top
            c(p) == face_centroid(tri_positions, tri_faces, p)[f.axis + 1]
        IN  /\ \A p \in f.node.start .. f.i - 1 : c(p) < f.split
            /\ \A p \in f.j + 1 .. f.node.end - 1 : c(p) >= f.split
            /\ f.i > f.j => f.i = f.j + 1
            /\ f.node.start <= f.i /\ f.i <= f.node.end
            /\ IsPermutation(SubSeq(tri_faces, f.node.start + 1, f.node.end),
                             SubSeq(f.before, f.node.start + 1, f.node.end))
            /\ \A p \in 1..Len(tri_faces) :
                  (p <= f.node.start \/ p > f.node.end) => tri_faces[p] = f.before[p]

C19_Witness ==
    /\ phase = "subdivide"
    /\ InLoop(Top)
    /\ Top.i > Top.j
    /\ Top.node.start < Top.i
    /\ Top.i < Top.node.end
    /\ tri_faces # Top.before
    /\ \E p \in Top.i .. Top.node.end - 1 :
          face_centroid(tri_positions, tri_faces, p)[Top.axis + 1] = Top.split

\* a step of the skip-link pass changes no field of any node but right
OnlyRightChanges ==
    /\ Len(nodes') = Len(nodes)
    /\ \A k \in 1..Len(nodes) : nodes'[k] = [nodes[k] EXCEPT !.right = nodes'[k].right]

\* C20: after the skip-link pass the skip of every left child is the index
\* of its right sibling, the skip of every right child is the skip of its
\* parent and the skip of the root is 0; the pass changes no bounds, left,
\* is_leaf, start or end.
C20_SkipLinks ==
    /\ [](Done =>
            /\ NodeAt(nodes, 0).right = 0
            /\ \A k \in Internals :
                  /\ NodeAt(nodes, LeftChild(k)).right = RightChild(k)
                  /\ NodeAt(nodes, RightChild(k)).right = NodeAt(nodes, k).right)
    /\ [][phase = "skips" => OnlyRightChanges]_vars

C20_Witness ==
    /\ Done
    /\ Cardinality(Leaves) >= 4
    /\ ~NodeAt(nodes, 1).is_leaf
    /\ ~NodeAt(nodes, 2).is_leaf
    /\ walk = "idle"

---------------------------------------------------------------------------
(* The skip-link walk over the merged node buffer *)

\* the node indices of tree k (0-based) in the merged buffer
PackedRange(k) == packed.roots[k + 1] .. packed.roots[k + 1] + Len(bvhs[k + 1].nodes) - 1

\* the next index of the walk at merged node g
PackedNextIndex(g, hit) ==
    LET n == packed.nodes[g + 1]
    IN  IF hit /\ n.is_leaf = 0 THEN n.left ELSE n.right

\* the nodes a walk from the indices S can visit, whatever the hits and
\* misses, when it stops at the value stop; indices outside the buffer are
\* kept and not followed
RECURSIVE PackedReach(_, _)
PackedReach(S, stop) ==
    LET inside == {g \in S : g >= 0 /\ g < Len(packed.nodes)}
        more == {PackedNextIndex(g, h) : g \in inside, h \in BOOLEAN} \ {stop}
    IN  IF more \subseteq S THEN S ELSE PackedReach(S \cup more, stop)

\* the value at which the walk from g with every test a hit (or every test
\* a miss) comes back to stop, -1 when it has not within fuel steps
RECURSIVE PackedWalkEnd(_, _, _, _)
PackedWalkEnd(g, hit, stop, fuel) ==
    IF fuel = 0 \/ g < 0 \/ g >= Len(packed.nodes) THEN -1
    ELSE LET nxt == PackedNextIndex(g, hit)
         IN  IF nxt = stop THEN nxt ELSE PackedWalkEnd(nxt, hit, stop, fuel - 1)

\* C21: in the merged node buffer a skip-link walk of tree k from roots[k]
\* visits only indices of tree k's own range, whatever the hits and misses,
\* and the value that ends it is roots[k], the image of the sentinel 0: no
\* link of tree k holds an index outside its range, in particular not 0
\* for k > 0.
C21_PackedWalk ==
    Packing =>
        \A k \in 0 .. pack_idx - 1 :
            LET root == packed.roots[k + 1]
            IN  /\ PackedReach({root}, root) \subseteq PackedRange(k)
                /\ \A g \in PackedRange(k) : \A h \in BOOLEAN :
                      PackedNextIndex(g, h) \in PackedRange(k)
                /\ \A h \in BOOLEAN :
                      PackedWalkEnd(root, h, root, Len(bvhs[k + 1].nodes)) = root
                /\ PackedReach({root}, root) = PackedRange(k)

C21_Witness ==
    /\ phase = "packed"
    /\ Len(bvhs) >= 2
    /\ packed.roots[2] > 0
    /\ Len(bvhs[2].nodes) >= 3
    /\ Len(bvhs[1].nodes) >= 3

\* the total normal count of trees 0..k-1 of the list handed to the packer
NormalCountBefore(k) == SumFirst([m \in 1..Len(bvhs) |-> Len(bvhs[m].tri_normals)], k)

\* C22 as stated: in the merged buffers the normal at (vertex offset of
\* mesh k) + v is mesh k's own normal v, for every mesh k and every vertex v
\* of it that has a normal.
C22_NormalsAligned ==
    Packing =>
        \A k \in 0 .. pack_idx - 1 :
            \A v \in 0 .. Len(bvhs[k + 1].tri_positions) - 1 :
                v < Len(bvhs[k + 1].tri_normals) =>
                    /\ VertexCountBefore(k) + v < Len(packed.tri_normals)
                    /\ packed.tri_normals[VertexCountBefore(k) + v + 1]
                           = Pad4(bvhs[k + 1].tri_normals[v + 1])


---------------------------------------------------------------------------
(* The arena order of the children *)

\* right still holds the right child of every internal node: subdivide is
\* running, or has just returned
RightsAreChildren == phase = "subdivide" \/ Subdivided

\* C29: at every point of a build both children of every internal node lie
\* in the arena at indices strictly greater than the node's own; the right
\* child is the node after the left child (the right field says so until
\* rights_to_skips rewrites it).
C29_ChildrenAfterParent ==
    phase \in {"subdivide", "skips", "done"} =>
        \A k \in Internals :
            /\ LeftChild(k) > k
            /\ RightChild(k) > k
            /\ RightChild(k) < Len(nodes)
            /\ RightsAreChildren => NodeAt(nodes, k).right = LeftChild(k) + 1

\* subdivide is still running below a node that is already internal
C29_Witness ==
    /\ phase = "subdivide"
    /\ Len(stack) >= 2
    /\ \E k \in Internals : k > 0 /\ LeftChild(k) > k + 1

---------------------------------------------------------------------------
(* The TLAS: TLAS::new, the build over the instance boxes, TLASData::new *)

MaxInstances == 4

\* bvh.initialize(2)
TlasThreshold == 2

\* blases[i.mesh].node_bounds(0) for the meshes the instances refer to
BlasRootBounds ==
    << [lb |-> <<-1, -1, -1>>, ub |-> <<1, 1, 1>>],
       [lb |-> <<0, 0, 0>>, ub |-> <<4, 1, 1>>] >>

\* The instances of the model: a mesh and a transform.  The rotation is
\* zero in every instance, scale and translation are integers.
InstanceOf(m, s, t) ==
    [mesh |-> m, transform |-> [scale |-> s, rotation |-> Vec3Zero, translation |-> t]]

InstancePool ==
    { InstanceOf(0, <<1, 1, 1>>, <<0, 0, 0>>),
      InstanceOf(0, <<1, 1, 1>>, <<5, 0, 0>>),
      InstanceOf(0, <<1, 1, 1>>, <<10, 0, 0>>),
      InstanceOf(1, <<-1, 2, 1>>, <<0, 6, 0>>) }

InstanceLists == UNION {[1..n -> InstancePool] : n \in 1..MaxInstances}

\* the 8 corners of a box
Corners(aabb) ==
    {<<x, y, z>> : x \in {aabb.lb[1], aabb.ub[1]}, y \in {aabb.lb[2], aabb.ub[2]},
                   z \in {aabb.lb[3], aabb.ub[3]}}

\* m.mul_vec4(c.extend(1.0)).xyz() for m = translate * rotate * scale, with
\* the rotation zero
TransformPoint(tr, c) == [a \in 1..3 |-> tr.scale[a] * c[a] + tr.translation[a]]

\* the closure of TLAS::new: the box of the 8 transformed corners of the
\* mesh's root box
WorldAABB(i) ==
    LET pts == {TransformPoint(i.transform, c) : c \in Corners(BlasRootBounds[i.mesh + 1])}
    IN  [lb |-> [a \in 1..3 |-> SetMin({p[a] : p \in pts})],
         ub |-> [a \in 1..3 |-> SetMax({p[a] : p \in pts})]]

\* the root leaf of TLAS::new
TlasRootLeaf(n) == [BVHNodeDefault EXCEPT !.is_leaf = TRUE, !.start = 0, !.end = n]

\* the TLAS as TLAS::new constructs it, before bvh.initialize(2)
TlasConstruct(is) ==
    /\ tlas_instances = is
    /\ tlas_nodes = <<TlasRootLeaf(Len(is))>>
    /\ instance_ids = [k \in 1..Len(is) |-> k - 1]
    /\ aabbs = [k \in 1..Len(is) |-> WorldAABB(is[k])]
    /\ tlas_stack = <<>>
    /\ tlas_phase = "new"

\* usize is 4 bytes on a 32-bit target and 8 bytes on a 64-bit target
InitTlas ==
    /\ AppIdle
    /\ SampleIdle
    /\ BvhIdle
    /\ QueueIdle
    /\ FrameIdle
    /\ WaveIdle
    /\ \E is \in InstanceLists : TlasConstruct(is)
    /\ usize_bytes \in {4, 8}
    /\ instance_id_buffer = <<>>

\* elem_bounds(elem)
tlas_elem_bounds(boxes, elem) == boxes[elem + 1]

\* 6 * elem_centroid(elem): (lb + ub) / 2 in the code
tlas_elem_centroid(boxes, elem) ==
    [a \in 1..3 |-> 3 * (boxes[elem + 1].lb[a] + boxes[elem + 1].ub[a])]

SeqSwap(s, a, b) == [s EXCEPT ![a + 1] = s[b + 1], ![b + 1] = s[a + 1]]

tlas_elem_swap_boxes_only(boxes, ids, elem, elem2) ==
    [aabbs |-> SeqSwap(boxes, elem, elem2), instance_ids |-> ids]

\* self.aabbs.swap(elem, elem2); self.instance_ids.swap(elem, elem2)
tlas_elem_swap(boxes, ids, elem, elem2) ==
    [aabbs |-> SeqSwap(boxes, elem, elem2), instance_ids |-> SeqSwap(ids, elem, elem2)]

RECURSIVE TlasFoldBounds(_, _, _, _)
TlasFoldBounds(boxes, acc, i, end) ==
    IF i >= end THEN acc
    ELSE TlasFoldBounds(boxes, union(acc, tlas_elem_bounds(boxes, i)), i + 1, end)

\* compute_bounds over the instance boxes
tlas_compute_bounds(ns, boxes, node_idx) ==
    LET node == NodeAt(ns, node_idx)
        b == IF ~node.is_leaf
                THEN union(NodeAt(ns, node.left).bounds, NodeAt(ns, node.right).bounds)
                ELSE TlasFoldBounds(boxes, tlas_elem_bounds(boxes, node.start),
                                    node.start + 1, node.end)
    IN  SetNode(ns, node_idx, [node EXCEPT !.bounds = b])

TlasTop == tlas_stack[Len(tlas_stack)]
TlasBelow == SubSeq(tlas_stack, 1, Len(tlas_stack) - 1)

\* the top call of the build returns; after subdivide(0) the skip pass runs
TlasReturn ==
    IF Len(tlas_stack) > 1
        THEN /\ tlas_stack' = TlasBelow
             /\ tlas_phase' = tlas_phase
        ELSE /\ tlas_stack' = <<>>
             /\ tlas_phase' = "skips"

tlasUnchanged == <<tlas_instances, usize_bytes, instance_id_buffer>>

\* initialize: the bounds of the root, then subdivide(0, threshold) is entered
TlasComputeBounds ==
    /\ tlas_phase = "new"
    /\ tlas_nodes' = tlas_compute_bounds(tlas_nodes, aabbs, 0)
    /\ tlas_stack' = <<SubdivideFrame(0)>>
    /\ tlas_phase' = "subdivide"
    /\ UNCHANGED <<instance_ids, aabbs>>
    /\ UNCHANGED tlasUnchanged
    /\ UNCHANGED <<bvhVars, queueVars, frameVars, waveVars, sampleVars, appVars>>

\* subdivide, from its entry to the start of the partition
TlasSubdivideEnter ==
    /\ tlas_phase = "subdivide"
    /\ TlasTop.pc = "enter"
    /\ LET node == NodeAt(tlas_nodes, TlasTop.node_idx)
       IN  IF WithinThreshold(node, TlasThreshold)
              THEN TlasReturn
              ELSE LET axis == LongestAxis(node.bounds)
                   IN  /\ tlas_stack' = Append(TlasBelow,
                                               [TlasTop EXCEPT !.pc = "loop", !.node = node,
                                                               !.axis = axis,
                                                               !.split = SplitOf(node.bounds, axis),
                                                               !.i = node.start,
                                                               !.j = node.end - 1])
                       /\ tlas_phase' = tlas_phase
    /\ UNCHANGED <<tlas_nodes, instance_ids, aabbs>>
    /\ UNCHANGED tlasUnchanged
    /\ UNCHANGED <<bvhVars, queueVars, frameVars, waveVars, sampleVars, appVars>>

\* one step of the two-pointer scan: the left cursor advances past an
\* element whose centroid is below the split, any other element is swapped
\* to the back and the right cursor decremented
TlasPartitionStep ==
    /\ tlas_phase = "subdivide"
    /\ TlasTop.pc = "loop"
    /\ TlasTop.i <= TlasTop.j
    /\ IF GoesLeft(tlas_elem_centroid(aabbs, TlasTop.i)[TlasTop.axis + 1], TlasTop.split)
          THEN /\ tlas_stack' = Append(TlasBelow, [TlasTop EXCEPT !.i = TlasTop.i + 1])
               /\ UNCHANGED <<instance_ids, aabbs>>
          ELSE LET swapped == tlas_elem_swap(aabbs, instance_ids, TlasTop.i, TlasTop.j)
               IN  /\ aabbs' = swapped.aabbs
                   /\ instance_ids' = swapped.instance_ids
                   /\ tlas_stack' = Append(TlasBelow, [TlasTop EXCEPT !.j = TlasTop.j - 1])
    /\ UNCHANGED <<tlas_nodes, tlas_phase>>
    /\ UNCHANGED tlasUnchanged
    /\ UNCHANGED <<bvhVars, queueVars, frameVars, waveVars, sampleVars, appVars>>

\* after the scan: the one-sided guard keeps the node a leaf, otherwise the
\* two children are appended, bounded and subdivide(l) is entered
TlasPartitionEnd ==
    /\ tlas_phase = "subdivide"
    /\ TlasTop.pc = "loop"
    /\ TlasTop.i > TlasTop.j
    /\ IF TlasTop.i = TlasTop.node.end \/ TlasTop.i = TlasTop.node.start
          THEN /\ tlas_nodes' = tlas_nodes
               /\ TlasReturn
          ELSE LET l == Len(tlas_nodes)
                   r == Len(tlas_nodes) + 1
                   pushed == Append(Append(tlas_nodes, LeftLeaf(TlasTop.node, TlasTop.i)),
                                    RightLeaf(TlasTop.node, TlasTop.i))
               IN  /\ tlas_nodes' = tlas_compute_bounds(tlas_compute_bounds(pushed, aabbs, l),
                                                        aabbs, r)
                   /\ tlas_stack' = Append(Append(TlasBelow,
                                                  [TlasTop EXCEPT !.pc = "after_left",
                                                                  !.l = l, !.r = r]),
                                           SubdivideFrame(l))
                   /\ tlas_phase' = tlas_phase
    /\ UNCHANGED <<instance_ids, aabbs>>
    /\ UNCHANGED tlasUnchanged
    /\ UNCHANGED <<bvhVars, queueVars, frameVars, waveVars, sampleVars, appVars>>

\* subdivide(l) has returned: subdivide(r) is entered
TlasSubdivideRight ==
    /\ tlas_phase = "subdivide"
    /\ TlasTop.pc = "after_left"
    /\ tlas_stack' = Append(Append(TlasBelow, [TlasTop EXCEPT !.pc = "after_right"]),
                            SubdivideFrame(TlasTop.r))
    /\ UNCHANGED <<tlas_nodes, instance_ids, aabbs, tlas_phase>>
    /\ UNCHANGED tlasUnchanged
    /\ UNCHANGED <<bvhVars, queueVars, frameVars, waveVars, sampleVars, appVars>>

\* subdivide(r) has returned: the node becomes an internal node and is bounded
TlasSubdivideFinish ==
    /\ tlas_phase = "subdivide"
    /\ TlasTop.pc = "after_right"
    /\ tlas_nodes' = tlas_compute_bounds(SetNode(tlas_nodes, TlasTop.node_idx,
                                                 InternalNode(TlasTop.l, TlasTop.r)),
                                         aabbs, TlasTop.node_idx)
    /\ TlasReturn
    /\ UNCHANGED <<instance_ids, aabbs>>
    /\ UNCHANGED tlasUnchanged
    /\ UNCHANGED <<bvhVars, queueVars, frameVars, waveVars, sampleVars, appVars>>

\* rights_to_skips(parent_idx, node_idx) on arena ns
RECURSIVE TlasSkips(_, _, _)
TlasSkips(ns, parent_idx, node_idx) ==
    LET node == NodeAt(ns, node_idx)
        p_right == NodeAt(ns, parent_idx).right
        afterLeft == IF ~node.is_leaf THEN TlasSkips(ns, node_idx, node.left) ELSE ns
        afterSelf == SetNode(afterLeft, node_idx,
                             [node EXCEPT !.right = SkipValue(node_idx, p_right)])
    IN  IF ~node.is_leaf THEN TlasSkips(afterSelf, node_idx, node.right) ELSE afterSelf

\* the skip pass over the finished tree; TLAS::new returns
TlasRightsToSkips ==
    /\ tlas_phase = "skips"
    /\ tlas_nodes' = TlasSkips(tlas_nodes, 0, 0)
    /\ tlas_phase' = "done"
    /\ UNCHANGED <<instance_ids, aabbs, tlas_stack>>
    /\ UNCHANGED tlasUnchanged
    /\ UNCHANGED <<bvhVars, queueVars, frameVars, waveVars, sampleVars, appVars>>

\* the u32 words of one usize in memory (little-endian; every id of the
\* model is below 2^32, so the upper word of an 8-byte usize is 0)
UsizeWords(v, bytes) == IF bytes = 4 THEN <<v>> ELSE <<v, 0>>

RECURSIVE CastSliceWords(_, _)
\* bytemuck::cast_slice(&ids), read as u32 words
CastSliceWords(ids, bytes) ==
    IF ids = <<>> THEN <<>>
    ELSE UsizeWords(Head(ids), bytes) \o CastSliceWords(Tail(ids), bytes)

\* TLASData::new: the instance-id buffer is created from the bytes of
\* tlas.instance_ids
TlasDataNew ==
    /\ tlas_phase = "done"
    /\ instance_id_buffer' = CastSliceWords(instance_ids, usize_bytes)
    /\ tlas_phase' = "uploaded"
    /\ UNCHANGED <<tlas_instances, tlas_nodes, instance_ids, aabbs, tlas_stack, usize_bytes>>
    /\ UNCHANGED <<bvhVars, queueVars, frameVars, waveVars, sampleVars, appVars>>

NextTlas ==
    \/ TlasComputeBounds
    \/ TlasSubdivideEnter
    \/ TlasPartitionStep
    \/ TlasPartitionEnd
    \/ TlasSubdivideRight
    \/ TlasSubdivideFinish
    \/ TlasRightsToSkips
    \/ TlasDataNew

SpecTlas == InitTlas /\ [][NextTlas]_vars

\* C25: throughout and after a TLAS build instance_ids is a permutation of
\* 0..n-1 and aabbs[k] is the world-space box computed for instance
\* instance_ids[k], at every position k.
C25_IdsParallel ==
    tlas_phase # "idle" =>
        LET n == Len(tlas_instances)
        IN  /\ Len(instance_ids) = n
            /\ Len(aabbs) = n
            /\ {instance_ids[k] : k \in 1..n} = 0 .. n - 1
            /\ \A k \in 1..n : aabbs[k] = WorldAABB(tlas_instances[instance_ids[k] + 1])

\* a finished build whose partition moved an instance away from its place
C25_Witness ==
    /\ tlas_phase = "done"
    /\ Len(tlas_nodes) >= 3
    /\ \E k \in 1..Len(instance_ids) :
          /\ instance_ids[k] # k - 1
          /\ aabbs[k] # WorldAABB(tlas_instances[k])

\* C27 as stated: the instance-id buffer holds one 32-bit word per TLAS
\* element, and word k is the instance id of the element at position k.
C27_OneWordPerElement ==
    tlas_phase = "uploaded" =>
        /\ Len(instance_id_buffer) = Len(instance_ids)
        /\ \A k \in 1..Len(instance_ids) : instance_id_buffer[k] = instance_ids[k]

---------------------------------------------------------------------------
(* The sample-source list: Samples::new and PathtracerState::new *)

\* let tile_size = 128
tile_size == 128

\* the image sizes of the model (Pathtracer.dims is any pair of u32)
ImageSizes == {0, 64, 128, 200, 256}

InitSamples ==
    /\ AppIdle
    /\ BvhIdle
    /\ QueueIdle
    /\ FrameIdle
    /\ WaveIdle
    /\ TlasIdle
    /\ sample_dims \in ImageSizes \X ImageSizes
    /\ sample_tiles = <<>>
    /\ sample_data = <<>>
    /\ sample_phase = "new"

RECURSIVE RangeSeq(_, _)
\* the range a..b-1 in order
RangeSeq(a, b) == IF a >= b THEN <<>> ELSE <<a>> \o RangeSeq(a + 1, b)

RECURSIVE CartesianProduct(_, _)
\* xs.cartesian_product(ys): every x with every y, the first component
\* changing slowest
CartesianProduct(xs, ys) ==
    IF xs = <<>> THEN <<>>
    ELSE [k \in 1..Len(ys) |-> <<Head(xs), ys[k]>>] \o CartesianProduct(Tail(xs), ys)

\* dims / tile_size on u32
TileCount(d) == d \div tile_size

\* the orders data.shuffle can leave a list in
Shuffles(s) ==
    {t \in [1..Len(s) -> {s[k] : k \in 1..Len(s)}] :
        \A k \in 1..Len(s) : Occurrences(t, s[k]) = Occurrences(s, s[k])}

\* (0..dims.0 / tile_size).cartesian_product(0..dims.1 / tile_size)
SamplesTiles ==
    /\ sample_phase = "new"
    /\ sample_tiles' = CartesianProduct(RangeSeq(0, TileCount(sample_dims[1])),
                                        RangeSeq(0, TileCount(sample_dims[2])))
    /\ sample_phase' = "tiles"
    /\ UNCHANGED <<sample_dims, sample_data>>
    /\ UNCHANGED <<bvhVars, queueVars, frameVars, waveVars, tlasVars, appVars>>

\* data.shuffle(&mut rand::rng()) on the tile list
SamplesShuffleTiles ==
    /\ sample_phase = "tiles"
    /\ sample_tiles' \in Shuffles(sample_tiles)
    /\ sample_phase' = "flat_map"
    /\ UNCHANGED <<sample_dims, sample_data>>
    /\ UNCHANGED <<bvhVars, queueVars, frameVars, waveVars, tlasVars, appVars>>

\* the pixels one tile contributes: x*tile_size .. x*tile_size + tile_size - 1
\* by y*tile_size .. y*tile_size + tile_size - 1, kept as the block's ranges
TileBlock(t) ==
    [x0 |-> t[1] * tile_size, x1 |-> t[1] * tile_size + tile_size,
     y0 |-> t[2] * tile_size, y1 |-> t[2] * tile_size + tile_size]

\* flat_map: the samples of the next tile are appended
SamplesFlatMap ==
    /\ sample_phase = "flat_map"
    /\ sample_tiles # <<>>
    /\ sample_data' = Append(sample_data, TileBlock(Head(sample_tiles)))
    /\ sample_tiles' = Tail(sample_tiles)
    /\ UNCHANGED <<sample_dims, sample_phase>>
    /\ UNCHANGED <<bvhVars, queueVars, frameVars, waveVars, tlasVars, appVars>>

\* collect_vec, then data.shuffle on the samples (an order of the same
\* samples; the blocks keep which samples there are) and the upload
SamplesShuffleData ==
    /\ sample_phase = "flat_map"
    /\ sample_tiles = <<>>
    /\ sample_data' \in Shuffles(sample_data)
    /\ sample_phase' = "built"
    /\ UNCHANGED <<sample_dims, sample_tiles>>
    /\ UNCHANGED <<bvhVars, queueVars, frameVars, waveVars, tlasVars, appVars>>

NextSamples ==
    \/ SamplesTiles
    \/ SamplesShuffleTiles
    \/ SamplesFlatMap
    \/ SamplesShuffleData

SpecSamples == InitSamples /\ [][NextSamples]_vars

\* how many samples of the list have out_pos = (x, y)
SampleCount(x, y) ==
    Cardinality({b \in 1..Len(sample_data) :
                    /\ sample_data[b].x0 <= x /\ x < sample_data[b].x1
                    /\ sample_data[b].y0 <= y /\ y < sample_data[b].y1})

\* C28 as stated: for every image size the sample list holds every pixel
\* of the image exactly once as out_pos and no pixel outside the image.
C28_EveryPixelOnce ==
    sample_phase = "built" =>
        /\ \A b \in 1..Len(sample_data) :
              /\ sample_data[b].x1 <= sample_dims[1]
              /\ sample_data[b].y1 <= sample_dims[2]
        /\ \A x \in 0 .. sample_dims[1] - 1 : \A y \in 0 .. sample_dims[2] - 1 :
              SampleCount(x, y) = 1

---------------------------------------------------------------------------
(* The application: BevyApp::run, the mesh server, the binder *)

MaxRuns == 3

Descriptors == {"Rect", "Cube"}

\* the entities of the model, in the order the query iterates them
EntityOrder == <<1, 2>>
Entities == {EntityOrder[k] : k \in 1..Len(EntityOrder)}

\* Option values: None and Some(x)
None == <<>>
Some(x) == <<x>>

\* light_sources.push(u32::MAX): the model writes -1 for 4294967295
U32_MAX == -1

\* the materials of the model: the first one added has an emissive colour
\* or an emissive texture, the second one neither
MaterialPool ==
    << { [emissive |-> 1, emissive_texture |-> 0],
         [emissive |-> 0, emissive_texture |-> 1] },
       { [emissive |-> 0, emissive_texture |-> 0] } >>

\* MeshServer::default()
MeshServerDefault ==
    [loading |-> <<>>, data |-> <<>>, counter |-> 0, by_desc |-> {},
     buffers |-> FALSE, aabbs |-> <<>>, mesh_id_to_geom_id |-> {}]

\* BinderLocal::default()
BinderLocalDefault == [tlas_cache |-> None, tlas_regenerate |-> TRUE]

\* SceneBindings::default()
SceneBindingsDefault == [bind_group |-> None, bind_group_layout |-> FALSE]

\* an entity that is not in the world yet; one that has left the query
ObjectAbsent ==
    [state |-> "absent", transform |-> 0, mesh_id |-> 0, mat_id |-> 0, changed |-> FALSE]
ObjectGone == [ObjectAbsent EXCEPT !.state = "gone"]

LoadStatsDefault ==
    [ids |-> [d \in Descriptors |-> 0], jobs |-> [d \in Descriptors |-> 0],
     again |-> FALSE]

InitApp ==
    /\ BvhIdle
    /\ QueueIdle
    /\ FrameIdle
    /\ WaveIdle
    /\ TlasIdle
    /\ SampleIdle
    /\ startup_has_run = FALSE
    /\ schedule_log = <<>>
    /\ mesh_server = MeshServerDefault
    /\ channels = <<>>
    /\ load_stats = LoadStatsDefault
    /\ material_server = <<>>
    /\ objects = [e \in Entities |-> ObjectAbsent]
    /\ removed_transforms = FALSE
    /\ removed_meshids = FALSE
    /\ binder_local = BinderLocalDefault
    /\ scene_bindings = SceneBindingsDefault

\* maps are sets of <<key, value>>
HasKey(map, key) == \E p \in map : p[1] = key
Lookup(map, key) == (CHOOSE p \in map : p[1] = key)[2]

load_mesh_no_lookup(ms, descriptor) ==
    [ms EXCEPT !.data = Append(@, "None"),
               !.counter = @ + 1,
               !.loading = Append(@, [descriptor |-> descriptor, id |-> ms.counter,
                                      rx |-> FALSE]),
               !.by_desc = {p \in @ : p[1] # descriptor} \cup {<<descriptor, ms.counter>>}]

\* MeshServer::load_mesh: the server after the call (the id returned is
\* by_desc[descriptor])
load_mesh(ms, descriptor) ==
    IF HasKey(ms.by_desc, descriptor) THEN ms
    ELSE [ms EXCEPT !.data = Append(@, "None"),
                    !.counter = @ + 1,
                    !.loading = Append(@, [descriptor |-> descriptor, id |-> ms.counter,
                                           rx |-> FALSE]),
                    !.by_desc = @ \cup {<<descriptor, ms.counter>>}]

appOthers == <<bvhVars, queueVars, frameVars, waveVars, tlasVars, sampleVars>>

\* a call of load_mesh
LoadMesh ==
    /\ \E d \in Descriptors :
          LET ms == load_mesh(mesh_server, d)
              new == ms.counter # mesh_server.counter
          IN  /\ mesh_server' = ms
              /\ channels' = IF new THEN Append(channels, "none") ELSE channels
              /\ load_stats' = IF new THEN [load_stats EXCEPT !.ids[d] = @ + 1]
                                ELSE [load_stats EXCEPT !.again = TRUE]
    /\ UNCHANGED <<startup_has_run, schedule_log, material_server, objects,
                   removed_transforms, removed_meshids, binder_local, scene_bindings>>
    /\ UNCHANGED appOthers

\* the load job of a mesh sends its MeshData into its channel
JobSend ==
    /\ \E k \in 1..Len(channels) :
          /\ channels[k] = "empty"
          /\ channels' = [channels EXCEPT ![k] = "full"]
    /\ UNCHANGED <<startup_has_run, schedule_log, mesh_server, load_stats, material_server,
                   objects, removed_transforms, removed_meshids, binder_local,
                   scene_bindings>>
    /\ UNCHANGED appOthers

\* the mesh ids whose data is Some, in ascending order
RECURSIVE LoadedFrom(_, _)
LoadedFrom(data, k) ==
    IF k > Len(data) THEN <<>>
    ELSE (IF data[k] # "None" THEN <<k - 1>> ELSE <<>>) \o LoadedFrom(data, k + 1)

\* MeshServer::regenerate_buffer: the geometry of every loaded mesh in the
\* order of the mesh ids; aabbs[g] is the box of the mesh with geometry id g
regenerate_buffer(ms) ==
    LET loaded == LoadedFrom(ms.data, 1)
    IN  [ms EXCEPT !.mesh_id_to_geom_id = {<<loaded[g], g - 1>> : g \in 1..Len(loaded)},
                   !.aabbs = loaded,
                   !.buffers = TRUE]

\* rx.try_recv() is Ok: the entry has a channel and the job has sent
Received(l, ch) == l.rx /\ ch[l.id + 1] = "full"

RECURSIVE RetainLoading(_, _)
\* loading.retain_mut: a received entry leaves the list, an entry without a
\* channel is started
RetainLoading(loading, ch) ==
    IF loading = <<>> THEN <<>>
    ELSE (IF Received(Head(loading), ch) THEN <<>>
          ELSE <<[Head(loading) EXCEPT !.rx = TRUE]>>) \o RetainLoading(Tail(loading), ch)

\* mesh_loading_system: the server and the channels afterwards, and the
\* descriptors whose job it started
mesh_loading_system(ms, ch) ==
    LET got == {k \in 1..Len(ms.loading) : Received(ms.loading[k], ch)}
        begun == {k \in 1..Len(ms.loading) : ~ms.loading[k].rx}
        EntryOf(S, id) == CHOOSE k \in S : ms.loading[k].id = id
        InSet(S, id) == \E k \in S : ms.loading[k].id = id
        stored == [ms EXCEPT
                     !.loading = RetainLoading(ms.loading, ch),
                     !.data = [i \in 1..Len(ms.data) |->
                                 IF InSet(got, i - 1)
                                    THEN ms.loading[EntryOf(got, i - 1)].descriptor
                                    ELSE ms.data[i]]]
    IN  [mesh_server |-> IF got # {} THEN regenerate_buffer(stored) ELSE stored,
         channels |-> [i \in 1..Len(ch) |->
                          IF InSet(got, i - 1) THEN "drained"
                          ELSE IF InSet(begun, i - 1) THEN "empty"
                          ELSE ch[i]],
         started |-> {ms.loading[k].descriptor : k \in begun}]

\* MeshServer::geom_id
geom_id(ms, id) ==
    IF HasKey(ms.mesh_id_to_geom_id, id) THEN Some(Lookup(ms.mesh_id_to_geom_id, id))
    ELSE None

\* material.emissive != Vec4::ZERO || material.emissive_texture > 0
IsEmissive(material) == material.emissive # 0 \/ material.emissive_texture > 0

\* the TLAS node buffer TLAS::new builds, named by what it was built from
TlasOf(boxes, transforms, instances) ==
    [aabbs |-> boxes, transforms |-> transforms, instances |-> instances]

\* the locals of binder_system before its loop
BinderAcc(regenerate) ==
    [materials |-> <<>>, transforms |-> <<>>, instances |-> <<>>,
     materials_id_map |-> {}, light_sources |-> <<>>, tlas_regenerate |-> regenerate]

RECURSIVE BinderLoop(_, _, _, _, _)
\* for (transform, mesh_id, mat_id) in objects { ... }
BinderLoop(es, acc, objs, ms, mats) ==
    IF es = <<>> THEN acc
    ELSE LET o == objs[Head(es)]
             flagged == [acc EXCEPT !.tlas_regenerate = @ \/ o.changed]
             geometry == geom_id(ms, o.mesh_id)
             known == HasKey(acc.materials_id_map, o.mat_id)
             material == mats[o.mat_id + 1]
             emissive == ~known /\ IsEmissive(material)
             material_idx == IF known THEN Lookup(acc.materials_id_map, o.mat_id)
                             ELSE Len(acc.materials)
             instance == [transform_idx |-> Len(acc.transforms),
                          geometry_idx |-> geometry[1],
                          material_idx |-> material_idx]
             pushed == [flagged EXCEPT
                          !.materials = IF known THEN @ ELSE Append(@, material),
                          !.materials_id_map = IF known THEN @
                                               ELSE @ \cup {<<o.mat_id, material_idx>>},
                          !.transforms = Append(@, o.transform),
                          !.instances = Append(@, instance),
                          !.light_sources = IF emissive THEN Append(@, Len(acc.instances))
                                            ELSE @]
         IN  IF o.state # "alive" THEN BinderLoop(Tail(es), acc, objs, ms, mats)
             ELSE IF geometry = None THEN BinderLoop(Tail(es), flagged, objs, ms, mats)
             ELSE BinderLoop(Tail(es), pushed, objs, ms, mats)

\* binder_system: its Local and the SceneBindings resource afterwards
binder_system(objs, ms, mats, bl, sb, removed_t, removed_m) ==
    LET layout == [sb EXCEPT !.bind_group_layout = TRUE]
        acc == BinderLoop(EntityOrder,
                          BinderAcc(bl.tlas_regenerate \/ (removed_t /\ removed_m)),
                          objs, ms, mats)
        looped == [bl EXCEPT !.tlas_regenerate = acc.tlas_regenerate]
        light_sources == IF acc.light_sources = <<>> THEN <<U32_MAX>>
                         ELSE acc.light_sources
        rebuilt == IF looped.tlas_regenerate
                      THEN [tlas_cache |-> Some(TlasOf(ms.aabbs, acc.transforms,
                                                       acc.instances)),
                            tlas_regenerate |-> FALSE]
                      ELSE looped
        bind_group == [instances |-> acc.instances, transforms |-> acc.transforms,
                       materials |-> acc.materials, light_sources |-> light_sources,
                       tlas |-> rebuilt.tlas_cache[1]]
    IN  IF ~ms.buffers
           THEN [binder_local |-> bl, scene_bindings |-> layout]
        ELSE IF acc.instances = <<>>
           THEN [binder_local |-> looped, scene_bindings |-> layout]
        ELSE IF rebuilt.tlas_cache = None
           THEN [binder_local |-> rebuilt, scene_bindings |-> layout]
        ELSE [binder_local |-> rebuilt,
              scene_bindings |-> [layout EXCEPT !.bind_group = Some(bind_group)]]

SchedulesOfEveryCall(has_run) == <<"PreStartup", "Startup", "Update">>

\* the schedules one call of BevyApp::run runs
SchedulesOf(has_run) ==
    IF ~has_run THEN <<"PreStartup", "Startup", "Update">> ELSE <<"Update">>

\* the two systems of the Update schedule have no order between them
SystemOrders ==
    { <<"mesh_loading_system", "binder_system">>,
      <<"binder_system", "mesh_loading_system">> }

\* BevyApp::run: the start-up schedules on the first call, then Update
\* (mesh_loading_system and binder_system); a system that has run has seen
\* every change made before
BevyAppRun ==
    /\ Len(schedule_log) < MaxRuns
    /\ schedule_log' = Append(schedule_log, SchedulesOf(startup_has_run))
    /\ startup_has_run' = TRUE
    /\ \E order \in SystemOrders :
          LET ml == mesh_loading_system(mesh_server, channels)
              seen == IF order[1] = "mesh_loading_system" THEN ml.mesh_server
                      ELSE mesh_server
              b == binder_system(objects, seen, material_server, binder_local,
                                 scene_bindings, removed_transforms, removed_meshids)
          IN  /\ mesh_server' = ml.mesh_server
              /\ channels' = ml.channels
              /\ load_stats' = [load_stats EXCEPT !.jobs =
                                   [d \in Descriptors |->
                                       IF d \in ml.started THEN @[d] + 1 ELSE @[d]]]
              /\ binder_local' = b.binder_local
              /\ scene_bindings' = b.scene_bindings
    /\ objects' = [e \in Entities |-> [objects[e] EXCEPT !.changed = FALSE]]
    /\ UNCHANGED <<material_server, removed_transforms, removed_meshids>>
    /\ UNCHANGED appOthers

\* MaterialServer::add_material
AddMaterial ==
    /\ Len(material_server) < Len(MaterialPool)
    /\ \E m \in MaterialPool[Len(material_server) + 1] :
          material_server' = Append(material_server, m)
    /\ UNCHANGED <<startup_has_run, schedule_log, mesh_server, channels, load_stats,
                   objects, removed_transforms, removed_meshids, binder_local,
                   scene_bindings>>
    /\ UNCHANGED appOthers

\* an object is spawned with a Transform, a MeshId load_mesh returned and a
\* MaterialId add_material returned
Spawn ==
    /\ \E e \in Entities :
          /\ objects[e].state = "absent"
          /\ \A f \in Entities : f < e => objects[f].state # "absent"
          /\ \E mesh_id \in 0 .. mesh_server.counter - 1 :
             \E mat_id \in 0 .. Len(material_server) - 1 :
                objects' = [objects EXCEPT ![e] =
                               [state |-> "alive", transform |-> 0, mesh_id |-> mesh_id,
                                mat_id |-> mat_id, changed |-> TRUE]]
    /\ UNCHANGED <<startup_has_run, schedule_log, mesh_server, channels, load_stats,
                   material_server, removed_transforms, removed_meshids, binder_local,
                   scene_bindings>>
    /\ UNCHANGED appOthers

\* the Transform of an object is written
SetTransform ==
    /\ \E e \in Entities :
          /\ objects[e].state = "alive"
          /\ objects[e].transform = 0
          /\ objects' = [objects EXCEPT ![e] = [@ EXCEPT !.transform = 1,
                                                         !.changed = TRUE]]
    /\ UNCHANGED <<startup_has_run, schedule_log, mesh_server, channels, load_stats,
                   material_server, removed_transforms, removed_meshids, binder_local,
                   scene_bindings>>
    /\ UNCHANGED appOthers

\* the Transform or the MeshId of an object is removed: the object leaves
\* the query, the removal event stays unread (binder_system only asks
\* is_empty, and nothing clears the trackers)
RemoveComponent ==
    /\ \E e \in Entities : \E c \in {"Transform", "MeshId"} :
          /\ objects[e].state = "alive"
          /\ objects' = [objects EXCEPT ![e] = ObjectGone]
          /\ removed_transforms' = (removed_transforms \/ c = "Transform")
          /\ removed_meshids' = (removed_meshids \/ c = "MeshId")
    /\ UNCHANGED <<startup_has_run, schedule_log, mesh_server, channels, load_stats,
                   material_server, binder_local, scene_bindings>>
    /\ UNCHANGED appOthers

\* an object is despawned: both components are removed
Despawn ==
    /\ \E e \in Entities :
          /\ objects[e].state = "alive"
          /\ objects' = [objects EXCEPT ![e] = ObjectGone]
    /\ removed_transforms' = TRUE
    /\ removed_meshids' = TRUE
    /\ UNCHANGED <<startup_has_run, schedule_log, mesh_server, channels, load_stats,
                   material_server, binder_local, scene_bindings>>
    /\ UNCHANGED appOthers

NextApp ==
    \/ LoadMesh
    \/ JobSend
    \/ BevyAppRun
    \/ AddMaterial
    \/ Spawn
    \/ SetTransform
    \/ RemoveComponent
    \/ Despawn

SpecApp == InitApp /\ [][NextApp]_vars

\* the bind group binder_system published last
Published == scene_bindings.bind_group # None
BindGroup == scene_bindings.bind_group[1]

\* C23 as stated: the TLAS node buffer of a published bind group was built
\* from exactly the instance and transform lists uploaded in that bind group.
C23_TlasNeverStale ==
    Published =>
        /\ BindGroup.tlas.instances = BindGroup.instances
        /\ BindGroup.tlas.transforms = BindGroup.transforms

\* the indices of the bound instances whose material is emissive
EmissiveInstances ==
    {k - 1 : k \in {j \in 1..Len(BindGroup.instances) :
                       IsEmissive(BindGroup.materials[
                                      BindGroup.instances[j].material_idx + 1])}}

\* C24 as stated: every bound instance with an emissive material has its
\* index in light_sources, also when instances share a MaterialId, and the
\* sentinel u32::MAX is present only when no bound instance is emissive.
C24_LightSources ==
    Published =>
        LET listed == {BindGroup.light_sources[k] : k \in 1..Len(BindGroup.light_sources)}
        IN  /\ EmissiveInstances \subseteq listed
            /\ U32_MAX \in listed => EmissiveInstances = {}

\* the entry of mesh id in the loading list, if any
IsLoading(id) == \E k \in 1..Len(mesh_server.loading) : mesh_server.loading[k].id = id
LoadingEntry(id) ==
    mesh_server.loading[CHOOSE k \in 1..Len(mesh_server.loading) :
                            mesh_server.loading[k].id = id]

OneIdOneJob ==
    \A d \in Descriptors :
        /\ load_stats.ids[d] <= 1
        /\ load_stats.jobs[d] <= 1
        /\ HasKey(mesh_server.by_desc, d) <=> load_stats.ids[d] = 1
        /\ HasKey(mesh_server.by_desc, d) =>
              LET id == Lookup(mesh_server.by_desc, d)
              IN  /\ load_stats.jobs[d] = 1 <=> (~IsLoading(id) \/ LoadingEntry(id).rx)
                  /\ channels[id + 1] = "drained" =>
                        ~IsLoading(id) /\ mesh_server.data[id + 1] # "None"
                  /\ ~IsLoading(id) => channels[id + 1] = "drained"

DataStaysSome ==
    \A i \in 1..Len(mesh_server.data) :
        mesh_server.data[i] # "None" =>
            /\ Len(mesh_server'.data) >= i
            /\ mesh_server'.data[i] = mesh_server.data[i]
            /\ ~\E k \in 1..Len(mesh_server'.loading) : mesh_server'.loading[k].id = i - 1

\* C26: for every descriptor, however often load_mesh is called and the
\* loading system ticks, one MeshId is allocated and one load job is
\* started (by the first tick after the first call); once the result has
\* been received the entry has left the loading list and data[id] is Some,
\* and stays so.
C26_OneLoadPerDescriptor ==
    /\ [](tlas_phase = "idle" /\ mesh_server # <<>> => OneIdOneJob)
    /\ [][mesh_server # <<>> => DataStaysSome]_vars

\* both meshes are loaded, load_mesh was called again for one of them, and the loading
\* system has ticked at least three times
C26_Witness ==
    /\ mesh_server # <<>>
    /\ Len(schedule_log) >= 3
    /\ mesh_server.loading = <<>>
    /\ \A d \in Descriptors : HasKey(mesh_server.by_desc, d)
    /\ load_stats.again
    /\ \A i \in 1..Len(mesh_server.data) : mesh_server.data[i] # "None"

\* C30: PreStartup and then Startup run once, in the first call of
\* BevyApp::run and before its Update; every call runs Update once.
C30_Schedules ==
    /\ startup_has_run <=> Len(schedule_log) >= 1
    /\ \A k \in 1..Len(schedule_log) :
          schedule_log[k] = IF k = 1 THEN <<"PreStartup", "Startup", "Update">>
                            ELSE <<"Update">>

C30_Witness == Len(schedule_log) >= 3 /\ startup_has_run

=============================================================================
